---- MODULE Spec2Model ----
(***************************************************************************)
(* A model of the data-access, caching and token-authentication core of    *)
(* demo-go: the in-memory user repository, the business service, the       *)
(* cache-aside decorator over it, and the JWT middleware.                  *)
(*                                                                         *)
(* Strings whose content the code inspects (emails, names, passwords) are  *)
(* sequences of one-character strings, so that strings.TrimSpace,          *)
(* strings.ToLower and strings.Contains are computed, not assumed.         *)
(***************************************************************************)
EXTENDS Integers, Sequences, FiniteSets, TLC

VARIABLES
    users,      \* memoryUserRepository.users : id -> record
    emails,     \* memoryUserRepository.emails: email -> id
    nextID,     \* memoryUserRepository.nextID
    now,        \* the wall clock read by time.Now()
    rret,       \* result of the last direct repository call
    pc,         \* per caller: where it stands in the operation it runs
    req,        \* per caller: the request of that operation
    loc,        \* per caller: the local variables of that operation
    ret,        \* per caller: what the last finished operation returned
    cache,      \* the cache server's entries: id -> [val, ttl]
    warm,       \* the detached list-warming tasks still running
    cur,        \* observer: per caller, notes on the operation it runs
    hist,       \* observer: per caller, notes on the operation it ran before
    marks       \* observer: what has happened to the cache entry of each id

repoVars == <<users, emails, nextID>>
procVars == <<pc, req, loc, ret>>
cacheVars == <<cache, warm>>
obsVars == <<cur, hist, marks>>
vars == <<users, emails, nextID, now, rret, pc, req, loc, ret, cache, warm,
          cur, hist, marks>>

----------------------------------------------------------------------------
(* Bounds of the model *)

MaxClock == 1       \* the clock stops advancing here
MaxID == 2          \* identifiers generated by the repository: 1..MaxID
MaxWarm == 1        \* list-warming tasks running at the same time

----------------------------------------------------------------------------
(* Strings *)

Lower(c) == CASE c = "A" -> "a" [] c = "B" -> "b" [] OTHER -> c

\* strings.ToLower
ToLower(s) == [i \in 1..Len(s) |-> Lower(s[i])]

RECURSIVE TrimLeft(_)
TrimLeft(s) == IF s # <<>> /\ Head(s) = " " THEN TrimLeft(Tail(s)) ELSE s

RECURSIVE TrimRight(_)
TrimRight(s) ==
    IF s # <<>> /\ s[Len(s)] = " " THEN TrimRight(SubSeq(s, 1, Len(s) - 1)) ELSE s

\* strings.TrimSpace
TrimSpace(s) == TrimRight(TrimLeft(s))

\* strings.Contains(s, c) for a one-character c
Contains(s, c) == \E i \in 1..Len(s) : s[i] = c

\* strconv.Itoa on the identifiers the model generates
Itoa(n) == <<"1", "2", "3", "4", "5", "6", "7", "8", "9">>[n]

----------------------------------------------------------------------------
(* Domain: errors and the User entity *)

Nil == "nil"
ErrUserNotFound == "USER_NOT_FOUND"
ErrUserAlreadyExists == "USER_ALREADY_EXISTS"
ErrInvalidCredentials == "INVALID_CREDENTIALS"
ErrInvalidToken == "INVALID_TOKEN"
ErrValidationFailed == "VALIDATION_FAILED"
\* a nil-pointer dereference: the goroutine panics
Panic == "PANIC"

User(id, name, email, password, role, createdAt, updatedAt) ==
    [ID |-> id, Name |-> name, Email |-> email, Password |-> password,
     Role |-> role, CreatedAt |-> createdAt, UpdatedAt |-> updatedAt]

\* User.ToResponse: every field but the password hash
ToResponse(u) ==
    [ID |-> u.ID, Name |-> u.Name, Email |-> u.Email, Role |-> u.Role,
     CreatedAt |-> u.CreatedAt, UpdatedAt |-> u.UpdatedAt]

MapSet(m, k, v) == [x \in DOMAIN m \cup {k} |-> IF x = k THEN v ELSE m[x]]
MapDel(m, k) == [x \in DOMAIN m \ {k} |-> m[x]]
EmptyMap == [x \in {} |-> Nil]

\* Observer: nothing has happened to any cache entry yet.
\*   deleted:   ids whose deletion through the decorator has returned success
\*   kept:      ids whose entry a write left in place because every cache
\*              call the write made for it failed
\*   rewritten: ids whose entry was last written with a projection that was
\*              not the stored account's at the time of the write
NoMarks == [deleted |-> {}, kept |-> {}, rewritten |-> {}]

\* a cache server without entries, and no list-warming task running
NoCache == cache = EmptyMap /\ warm = <<>> /\ marks = NoMarks

----------------------------------------------------------------------------
(* memoryUserRepository.  Every method runs inside the repository lock, so *)
(* each is one atomic step.  The methods are operators from the current    *)
(* state to their outcome: the error they return and the state they leave. *)

\* a Create without the email-uniqueness check
CreateUnchecked(user, t1, t2) ==
    LET id == IF user.ID = "" THEN Itoa(nextID) ELSE user.ID
        stored == [user EXCEPT !.ID = id, !.CreatedAt = t1, !.UpdatedAt = t2]
    IN  [err |-> Nil, user |-> stored,
         users |-> MapSet(users, id, stored),
         emails |-> MapSet(emails, user.Email, id),
         nextID |-> IF user.ID = "" THEN nextID + 1 ELSE nextID]

\* Create(ctx, user); t1 and t2 are the two readings of time.Now()
Create(user, t1, t2) ==
    IF user.Email \in DOMAIN emails
    THEN [err |-> ErrUserAlreadyExists, user |-> user,
          users |-> users, emails |-> emails, nextID |-> nextID]
    ELSE LET id == IF user.ID = "" THEN Itoa(nextID) ELSE user.ID
             stored == [user EXCEPT !.ID = id, !.CreatedAt = t1, !.UpdatedAt = t2]
         IN  [err |-> Nil, user |-> stored,
              users |-> MapSet(users, id, stored),
              emails |-> MapSet(emails, user.Email, id),
              nextID |-> IF user.ID = "" THEN nextID + 1 ELSE nextID]

\* GetByID(ctx, id): a copy of the record
GetByID(id) ==
    IF id \notin DOMAIN users
    THEN [err |-> ErrUserNotFound, user |-> Nil]
    ELSE [err |-> Nil, user |-> users[id]]

\* GetByEmail(ctx, email): r.users[userID] is dereferenced without a check
GetByEmail(email) ==
    IF email \notin DOMAIN emails
    THEN [err |-> ErrUserNotFound, user |-> Nil]
    ELSE IF emails[email] \notin DOMAIN users
         THEN [err |-> Panic, user |-> Nil]
         ELSE [err |-> Nil, user |-> users[emails[email]]]

\* an Update without the check that the new email is free
UpdateUnchecked(id, user, t) ==
    IF id \notin DOMAIN users
    THEN [err |-> ErrUserNotFound, user |-> user, users |-> users, emails |-> emails]
    ELSE LET existingUser == users[id]
             stored == [user EXCEPT !.ID = id,
                                    !.CreatedAt = existingUser.CreatedAt,
                                    !.UpdatedAt = t]
         IN  [err |-> Nil, user |-> stored,
              users |-> MapSet(users, id, stored),
              emails |-> IF user.Email # existingUser.Email
                         THEN MapSet(MapDel(emails, existingUser.Email), user.Email, id)
                         ELSE emails]

\* an Update that stores the record as the caller passed it
UpdateAsPassed(id, user, t) ==
    IF id \notin DOMAIN users
    THEN [err |-> ErrUserNotFound, user |-> user, users |-> users, emails |-> emails]
    ELSE IF user.Email # users[id].Email /\ user.Email \in DOMAIN emails
    THEN [err |-> ErrUserAlreadyExists, user |-> user, users |-> users, emails |-> emails]
    ELSE [err |-> Nil, user |-> user,
          users |-> MapSet(users, id, user),
          emails |-> IF user.Email # users[id].Email
                     THEN MapSet(MapDel(emails, users[id].Email), user.Email, id)
                     ELSE emails]

\* an Update that adds the index entry of the new email and keeps the old one
UpdateKeepOldEntry(id, user, t) ==
    IF id \notin DOMAIN users
    THEN [err |-> ErrUserNotFound, user |-> user, users |-> users, emails |-> emails]
    ELSE IF user.Email # users[id].Email /\ user.Email \in DOMAIN emails
    THEN [err |-> ErrUserAlreadyExists, user |-> user, users |-> users, emails |-> emails]
    ELSE LET stored == [user EXCEPT !.ID = id, !.CreatedAt = users[id].CreatedAt,
                                    !.UpdatedAt = t]
         IN  [err |-> Nil, user |-> stored,
              users |-> MapSet(users, id, stored),
              emails |-> MapSet(emails, user.Email, id)]

\* Update(ctx, id, user); t is the reading of time.Now()
Update(id, user, t) ==
    IF id \notin DOMAIN users
    THEN [err |-> ErrUserNotFound, user |-> user, users |-> users, emails |-> emails]
    ELSE LET existingUser == users[id]
             stored == [user EXCEPT !.ID = id,
                                    !.CreatedAt = existingUser.CreatedAt,
                                    !.UpdatedAt = t]
         IN  IF user.Email # existingUser.Email /\ user.Email \in DOMAIN emails
             THEN [err |-> ErrUserAlreadyExists, user |-> user,
                   users |-> users, emails |-> emails]
             ELSE [err |-> Nil, user |-> stored,
                   users |-> MapSet(users, id, stored),
                   emails |-> IF user.Email # existingUser.Email
                              THEN MapSet(MapDel(emails, existingUser.Email), user.Email, id)
                              ELSE emails]

\* a Delete that removes the record and keeps its index entry
DeleteKeepEntry(id) ==
    IF id \notin DOMAIN users
    THEN [err |-> ErrUserNotFound, users |-> users, emails |-> emails]
    ELSE [err |-> Nil, users |-> MapDel(users, id), emails |-> emails]

\* Delete(ctx, id)
Delete(id) ==
    IF id \notin DOMAIN users
    THEN [err |-> ErrUserNotFound, users |-> users, emails |-> emails]
    ELSE [err |-> Nil,
          users |-> MapDel(users, id),
          emails |-> MapDel(emails, users[id].Email)]

\* Count(ctx)
Count == Cardinality(DOMAIN users)

\* NewMemoryUserRepository
NewMemoryUserRepository ==
    /\ users = EmptyMap
    /\ emails = EmptyMap
    /\ nextID = 1

----------------------------------------------------------------------------
(* The clock *)

\* the readings two successive calls of time.Now() can give
Clock2 == {<<now, t2>> : t2 \in {t \in {now, now + 1} : t <= MaxClock}}

Tick ==
    /\ now < MaxClock
    /\ now' = now + 1
    /\ UNCHANGED <<repoVars, rret, procVars, cacheVars, obsVars>>

----------------------------------------------------------------------------
(* Direct callers of the repository (SpecRepo) *)

RepoEmails == {<<"a", "@", ".">>, <<"b", "@", ".">>, <<"A", "@", ".">>}
RepoNames == {<<"A", "l">>, <<"B", "o">>}
RepoIDs == {"", "1", "2"}
Hash0 == <<"bcrypt", <<"s", "e", "c", "r", "e", "t">>>>

\* the records a caller hands to Create and Update
RepoUsers ==
    {User(id, n, e, Hash0, "user", 0, 0) : id \in RepoIDs, n \in RepoNames, e \in RepoEmails}

CallCreate ==
    \E user \in RepoUsers, t \in Clock2 :
        /\ user.ID = "" => nextID <= MaxID
        /\ LET r == Create(user, t[1], t[2])
           IN  /\ users' = r.users
               /\ emails' = r.emails
               /\ nextID' = r.nextID
               /\ now' = IF r.err = Nil THEN t[2] ELSE now
               /\ rret' = [op |-> "Create", err |-> r.err]
               /\ UNCHANGED <<procVars, cacheVars, obsVars>>

CallUpdate ==
    \E id \in RepoIDs \ {""}, user \in RepoUsers :
        LET r == Update(id, user, now)
        IN  /\ users' = r.users
            /\ emails' = r.emails
            /\ rret' = [op |-> "Update", err |-> r.err]
            /\ UNCHANGED <<nextID, now, procVars, cacheVars, obsVars>>

CallDelete ==
    \E id \in {Itoa(n) : n \in 1..MaxID} :
        LET r == Delete(id)
        IN  /\ users' = r.users
            /\ emails' = r.emails
            /\ rret' = [op |-> "Delete", err |-> r.err]
            /\ UNCHANGED <<nextID, now, procVars, cacheVars, obsVars>>

CallGetByEmail ==
    \E e \in RepoEmails :
        LET r == GetByEmail(e)
        IN  /\ rret' = [op |-> "GetByEmail", err |-> r.err]
            /\ UNCHANGED <<repoVars, now, procVars, cacheVars, obsVars>>

NoCallers ==
    /\ pc = EmptyMap /\ req = EmptyMap /\ loc = EmptyMap /\ ret = EmptyMap
    /\ NoCache
    /\ cur = EmptyMap /\ hist = EmptyMap

InitRepo ==
    /\ NewMemoryUserRepository
    /\ now = 0
    /\ rret = [op |-> "none"]
    /\ NoCallers

NextRepo == CallCreate \/ CallUpdate \/ CallDelete \/ CallGetByEmail \/ Tick

SpecRepo == InitRepo /\ [][NextRepo]_vars

----------------------------------------------------------------------------
(* C1: in the in-memory repository no two stored accounts have the same    *)
(* email, after any sequence of create, update and delete calls.           *)
C1_EmailUnique ==
    \A i, j \in DOMAIN users : users[i].Email = users[j].Email => i = j

\* two accounts are stored and a create or update was just refused as a duplicate
C1_Witness ==
    /\ Cardinality(DOMAIN users) >= 2
    /\ rret.op \in {"Create", "Update"}
    /\ rret.err = ErrUserAlreadyExists

(* C2: the identifier table and the email index never diverge: each stored *)
(* record r has the index entry email(r) -> id(r), and each index entry    *)
(* points to an existing record that carries that email.                   *)
C2_IndexConsistent ==
    /\ \A i \in DOMAIN users :
          users[i].Email \in DOMAIN emails /\ emails[users[i].Email] = i
    /\ \A e \in DOMAIN emails :
          emails[e] \in DOMAIN users /\ users[emails[e]].Email = e

----------------------------------------------------------------------------
(* memoryUserRepository.List *)

Swap(a, i, j) == [a EXCEPT ![i] = a[j], ![j] = a[i]]

\* the inner loop: for j := i + 1; j < len; j++ (indices from 1 here)
RECURSIVE SortInner(_, _, _)
SortInner(a, i, j) ==
    IF j > Len(a) THEN a
    ELSE SortInner(IF a[i].CreatedAt < a[j].CreatedAt THEN Swap(a, i, j) ELSE a, i, j + 1)

\* the outer loop: for i := 0; i < len - 1; i++
RECURSIVE SortOuter(_, _)
SortOuter(a, i) ==
    IF i > Len(a) - 1 THEN a ELSE SortOuter(SortInner(a, i, i + 1), i + 1)

\* the orders in which ranging over the map can yield its records
RECURSIVE Orders(_)
Orders(S) ==
    IF S = {} THEN {<<>>}
    ELSE UNION {{<<users[x]>> \o o : o \in Orders(S \ {x})} : x \in S}

\* a pagination that starts one record late
PageOffByOne(a, limit, offset) ==
    IF offset + 1 > Len(a) THEN <<>>
    ELSE LET end == IF offset + 1 + limit > Len(a) THEN Len(a) ELSE offset + 1 + limit
         IN  SubSeq(a, offset + 2, end)

\* pagination of the sorted slice: allUsers[start:end]
Page(a, limit, offset) ==
    IF offset > Len(a) THEN <<>>
    ELSE LET end == IF offset + limit > Len(a) THEN Len(a) ELSE offset + limit
         IN  SubSeq(a, offset + 1, end)

\* List(ctx, limit, offset): the results it can return, one per iteration order
List(limit, offset) ==
    {Page(SortOuter(o, 1), limit, offset) : o \in Orders(DOMAIN users)}

----------------------------------------------------------------------------
(* jwtTokenService.GenerateToken *)

\* cfg.JWT.Expiration, in ticks of the model's clock
JWTExpiration == 1
SecretKey == "secret-key"

\* the number of bytes of a signature that are told apart
SigBytes == 2

\* the claims a token carries
ClaimsOf(token) ==
    [UserID |-> token.UserID, Email |-> token.Email, Role |-> token.Role,
     Exp |-> token.Exp, Iat |-> token.Iat]

\* token.SignedString(key) with the method alg.  A MAC is told by what it
\* was computed from (method, key, signed content): different inputs give
\* different MACs.  flip is the set of bytes of the signature that have been
\* changed since it was computed.
Sign(alg, key, claims) ==
    [mac |-> <<alg, key, claims.UserID, claims.Email, claims.Role, claims.Exp, claims.Iat>>,
     flip |-> {}]

\* The signature travels in base64url without padding.  The last character
\* of the text has bits that belong to no byte of the signature; the decoder
\* of jwt.Parse (not strict) drops them.  pad: these bits have been changed.
EncodeSegment(sig) == [mac |-> sig.mac, flip |-> sig.flip, pad |-> FALSE]
DecodeSegment(seg) == [mac |-> seg.mac, flip |-> seg.flip]

\* the token with these claims, signed with the method alg and the key
SignedToken(claims, alg, key) ==
    [UserID |-> claims.UserID, Email |-> claims.Email, Role |-> claims.Role,
     Exp |-> claims.Exp, Iat |-> claims.Iat, Alg |-> alg,
     Sig |-> EncodeSegment(Sign(alg, key, claims))]

\* a GenerateToken that leaves the user_id claim empty
GenerateTokenNoSubject(user, t) ==
    SignedToken([UserID |-> "", Email |-> user.Email, Role |-> user.Role,
                 Exp |-> t + JWTExpiration, Iat |-> t], "HS256", SecretKey)

\* a GenerateToken that signs with a key that is not the service's
GenerateTokenOtherKey(user, t) ==
    SignedToken([UserID |-> user.ID, Email |-> user.Email, Role |-> user.Role,
                 Exp |-> t + JWTExpiration, Iat |-> t], "HS256", "guess")

GenerateToken(user, t) ==
    SignedToken([UserID |-> user.ID, Email |-> user.Email, Role |-> user.Role,
                 Exp |-> t + JWTExpiration, Iat |-> t], "HS256", SecretKey)

----------------------------------------------------------------------------
(* userService: the business service.  A caller p runs one operation at a  *)
(* time; an operation is cut into steps at its repository calls, each of   *)
(* which is atomic under the repository lock.                              *)

None == <<>>
Some(x) == <<x>>
NoLoc == [k |-> "none"]

\* a normalisation that trims the email but keeps its case
NormalizeKeepCase(email) == TrimSpace(email)

\* strings.ToLower(strings.TrimSpace(email)), as Register, Login and
\* UpdateProfile apply it
Normalize(email) == ToLower(TrimSpace(email))

\* bcrypt: a hash verifies against the password it was made from and no other
hashPassword(password) == <<"bcrypt", password>>
\* a verification that accepts every password
verifyAnyPassword(hashedPassword, password) == TRUE
verifyPassword(hashedPassword, password) == hashedPassword = hashPassword(password)

isValidEmail(email) ==
    Contains(TrimSpace(email), "@") /\ Contains(TrimSpace(email), ".")

validateCreateUserRequest(r) ==
    IF TrimSpace(r.Name) = <<>> THEN ErrValidationFailed
    ELSE IF Len(TrimSpace(r.Name)) < 2 THEN ErrValidationFailed
    ELSE IF TrimSpace(r.Email) = <<>> THEN ErrValidationFailed
    ELSE IF ~isValidEmail(r.Email) THEN ErrValidationFailed
    ELSE IF Len(r.Password) < 6 THEN ErrValidationFailed
    ELSE Nil

validateLoginRequest(r) ==
    IF TrimSpace(r.Email) = <<>> THEN ErrValidationFailed
    ELSE IF r.Password = <<>> THEN ErrValidationFailed
    ELSE Nil

validateUpdateUserRequest(r) ==
    IF r.Name # None /\ Len(TrimSpace(r.Name[1])) < 2 THEN ErrValidationFailed
    ELSE IF r.Email # None /\ ~isValidEmail(r.Email[1]) THEN ErrValidationFailed
    ELSE Nil

Result(err, val) == [err |-> err, val |-> val]
Failure(err) == [err |-> err, val |-> None]

\* the account a request names, if it names one
ReqID(r) == IF "id" \in DOMAIN r THEN r.id ELSE ""

\* e and f spell the same address: they differ in case or surrounding blanks
Variant(e, f) == ToLower(TrimSpace(e)) = ToLower(TrimSpace(f))

\* Observer: what is noted when a caller starts the operation r.
\*   holders: the accounts whose email is a spelling of the request's email,
\*            whatever spelling they were registered in
\*   pre:     the projection of the account an update names, as stored now
\*   after:   the request names an account whose deletion has returned
\*   fails:   the cache calls of the operation that failed
\*   hit:     the operation was answered from the cache
\*   stale:   kept or rewritten was marked for the id when the cache was read
\*   svc:     what the wrapped service returned to the decorator, if called
\*   expired: the entry of the id expired since the operation started
\*            (noted for GetUserByID)
\*   auth:    what ValidateToken returned for the request's token, if called
\*   chain:   the stages an HTTP request has passed, in order
\*   subject: the subject id with which the handler called the business
\*            service, if it did
NoNotes == [op |-> "none"]
Notes(r) ==
    [op |-> r.op,
     id |-> ReqID(r),
     holders |-> IF "Email" \in DOMAIN r /\ r.op \in {"Register", "Login"}
                 THEN {i \in DOMAIN users : Variant(users[i].Email, r.Email)} ELSE {},
     pre |-> IF r.op = "UpdateProfile" /\ r.id \in DOMAIN users
             THEN Some(ToResponse(users[r.id])) ELSE None,
     after |-> ReqID(r) \in marks.deleted,
     fails |-> {}, hit |-> FALSE, stale |-> FALSE, svc |-> None, expired |-> FALSE,
     auth |-> None, chain |-> <<>>, subject |-> None]

\* Observer: what is kept of the operation caller p has finished when it
\* starts r.  Kept are a successful UpdateProfile(id) when r is GetProfile(id),
\* and a GetUserByID(id) that found the account with every cache call
\* succeeding and no expiry since, when r is GetUserByID(id).
Summary(p, r) ==
    IF pc[p] # "done" \/ req[p].via # "cached" \/ ret[p].err # Nil
       \/ ReqID(r) # cur[p].id
    THEN NoNotes
    ELSE IF req[p].op = "UpdateProfile" /\ r.op = "GetProfile"
    THEN [op |-> "UpdateProfile", id |-> cur[p].id, pre |-> cur[p].pre,
          val |-> ret[p].val, fails |-> cur[p].fails]
    ELSE IF req[p].op = "GetUserByID" /\ r.op = "GetUserByID"
            /\ cur[p].fails = {} /\ ~cur[p].expired
    THEN [op |-> "GetUserByID", id |-> cur[p].id, hit |-> cur[p].hit,
          called |-> cur[p].svc # None]
    ELSE NoNotes

----------------------------------------------------------------------------
(* redisCache.  The cache server is reached over the network: any call may *)
(* fail (ok = FALSE), and a call that fails leaves the entries unchanged.  *)
(* Like the repository's methods, the cache's are operators from the       *)
(* current state to their outcome.                                         *)

RedisTTL == 1                   \* DefaultRedisDataTTL, in clock ticks
Main == "main"                  \* the process that loads the configuration

\* cfg.Cache.Redis.TTL: what Load read from the environment where the
\* specification follows the start of the server, the default elsewhere
ConfigTTL ==
    IF \E p \in DOMAIN pc : pc[p] = "serving" THEN loc[Main].TTL ELSE RedisTTL
cacheTTL == ConfigTTL           \* the decorator is built with the same value
CacheError == "CACHE_ERROR"     \* any error of the redis client but redis.Nil
RedisNil == "redis: nil"

userCacheKey(userID) == <<"user:", userID>>

\* a marshalling that loses the time of the last update
MarshalNoUpdatedAt(r) ==
    << <<"id", r.ID>>, <<"name", r.Name>>, <<"email", r.Email>>,
       <<"role", r.Role>>, <<"created_at", r.CreatedAt>>, <<"updated_at", 0>> >>

\* json.Marshal of a UserResponse: the tagged fields, in declaration order
Marshal(r) ==
    << <<"id", r.ID>>, <<"name", r.Name>>, <<"email", r.Email>>,
       <<"role", r.Role>>, <<"created_at", r.CreatedAt>>,
       <<"updated_at", r.UpdatedAt>> >>

Field(data, k) == data[CHOOSE i \in 1..Len(data) : data[i][1] = k][2]

\* json.Unmarshal into a UserResponse
Unmarshal(data) ==
    [ID |-> Field(data, "id"), Name |-> Field(data, "name"),
     Email |-> Field(data, "email"), Role |-> Field(data, "role"),
     CreatedAt |-> Field(data, "created_at"),
     UpdatedAt |-> Field(data, "updated_at")]

\* redisCache.Get
CacheGet(key, ok) ==
    IF ~ok THEN [err |-> CacheError, val |-> None]
    ELSE IF key \notin DOMAIN cache THEN [err |-> RedisNil, val |-> None]
    ELSE [err |-> Nil, val |-> Some(Unmarshal(cache[key].val))]

\* redisCache.Set
CacheSet(key, value, ttl, ok) ==
    LET t == IF ttl = 0 THEN ConfigTTL ELSE ttl
    IN  IF ~ok THEN [err |-> CacheError, cache |-> cache]
        ELSE [err |-> Nil,
              cache |-> MapSet(cache, key, [val |-> Marshal(value), ttl |-> t])]

\* a Delete that reports success and removes nothing
CacheDeleteNoop(key, ok) ==
    [err |-> IF ok THEN Nil ELSE CacheError, cache |-> cache]

\* redisCache.Delete
CacheDelete(key, ok) ==
    IF ~ok THEN [err |-> CacheError, cache |-> cache]
    ELSE [err |-> Nil, cache |-> MapDel(cache, key)]

\* redisCache.GetUser
CacheGetUser(userID, ok) ==
    LET g == CacheGet(userCacheKey(userID), ok)
    IN  IF g.err = RedisNil THEN [err |-> ErrUserNotFound, user |-> None]
        ELSE IF g.err # Nil THEN [err |-> g.err, user |-> None]
        ELSE [err |-> Nil, user |-> g.val]

\* a SetUser that leaves an entry that exists as it is
CacheSetUserIfAbsent(userID, user, ttl, ok) ==
    IF ok /\ userCacheKey(userID) \in DOMAIN cache
    THEN [err |-> Nil, cache |-> cache]
    ELSE CacheSet(userCacheKey(userID), user, ttl, ok)

\* redisCache.SetUser
CacheSetUser(userID, user, ttl, ok) == CacheSet(userCacheKey(userID), user, ttl, ok)

\* redisCache.DeleteUser
CacheDeleteUser(userID, ok) == CacheDelete(userCacheKey(userID), ok)

\* Observer: the marks after a SetUser call for id with outcome s
MarkSet(id, value, s) ==
    IF s.err # Nil THEN marks
    ELSE IF id \in DOMAIN users /\ value = ToResponse(users[id])
         THEN [marks EXCEPT !.kept = @ \ {id}, !.rewritten = @ \ {id}]
         ELSE [marks EXCEPT !.kept = @ \ {id}, !.rewritten = @ \cup {id}]

\* Observer: the marks once the entry of id is gone from the cache
MarkGone(id) == [marks EXCEPT !.kept = @ \ {id}, !.rewritten = @ \ {id}]

\* Observer: the marks after a write whose cache calls for id all failed
MarkKept(id) == [marks EXCEPT !.kept = @ \cup {id}]

\* The server drops an entry whose time to live has run out.
Expire(key) ==
    /\ key \in DOMAIN cache
    /\ cache[key].ttl > 0
    /\ cache' = MapDel(cache, key)
    /\ marks' = MarkGone(key[2])
    /\ cur' = [p \in DOMAIN cur |->
                 IF cur[p].op = "GetUserByID" /\ cur[p].id = key[2]
                 THEN [cur[p] EXCEPT !.expired = TRUE] ELSE cur[p]]
    /\ UNCHANGED <<repoVars, now, rret, procVars, warm, hist>>

----------------------------------------------------------------------------
(* Callers.  An operation is cut into steps at its repository and cache    *)
(* calls; pc[p] names the step caller p takes next.                        *)

\* caller p moves on to the step label with locals l
Jump(p, label, l, notes) ==
    /\ pc' = [pc EXCEPT ![p] = label]
    /\ loc' = [loc EXCEPT ![p] = l]
    /\ cur' = [cur EXCEPT ![p] = notes]
    /\ UNCHANGED <<ret, hist>>

\* the operation of caller p returns r
Finish(p, r, notes) ==
    /\ pc' = [pc EXCEPT ![p] = "done"]
    /\ loc' = [loc EXCEPT ![p] = NoLoc]
    /\ ret' = [ret EXCEPT ![p] = r]
    /\ cur' = [cur EXCEPT ![p] = notes]
    /\ UNCHANGED hist

\* An operation of the bare service returns to its caller.
ServiceReturn(p, r) == Finish(p, r, cur[p]) /\ UNCHANGED <<cacheVars, marks>>

\* a decorator that drops every entry when the wrapped service fails
CachedReturnPurge(p, r) ==
    LET notes == [cur[p] EXCEPT !.svc = Some(r)]
    IN  IF r.err # Nil
        THEN Finish(p, r, notes) /\ cache' = EmptyMap /\ UNCHANGED <<warm, marks>>
        ELSE IF req[p].op = "RefreshToken"
        THEN Finish(p, r, notes) /\ UNCHANGED <<cacheVars, marks>>
        ELSE IF req[p].op = "GetUsers"
        THEN /\ Finish(p, r, notes)
             /\ warm' = IF r.val.users = <<>> THEN warm ELSE Append(warm, r.val.users)
             /\ UNCHANGED <<cache, marks>>
        ELSE IF req[p].op \in {"UpdateProfile", "DeleteUser"}
        THEN Jump(p, "CachedInvalidate", r, notes) /\ UNCHANGED <<cacheVars, marks>>
        ELSE Jump(p, "CachedSet", r, notes) /\ UNCHANGED <<cacheVars, marks>>

\* An operation of the wrapped service returns r to the decorator: an error
\* is passed on; RefreshToken returns; GetUsers starts the warming task and
\* returns; every other operation goes on to its cache calls.
CachedReturn(p, r) ==
    LET notes == [cur[p] EXCEPT !.svc = Some(r)]
    IN  IF r.err # Nil \/ req[p].op = "RefreshToken"
        THEN Finish(p, r, notes) /\ UNCHANGED <<cacheVars, marks>>
        ELSE IF req[p].op = "GetUsers"
        THEN /\ Finish(p, r, notes)
             /\ warm' = IF r.val.users = <<>> THEN warm ELSE Append(warm, r.val.users)
             /\ UNCHANGED <<cache, marks>>
        ELSE IF req[p].op \in {"UpdateProfile", "DeleteUser"}
        THEN Jump(p, "CachedInvalidate", r, notes) /\ UNCHANGED <<cacheVars, marks>>
        ELSE Jump(p, "CachedSet", r, notes) /\ UNCHANGED <<cacheVars, marks>>

\* The caller's operation leaves the business service.
Return(p, r) ==
    IF req[p].via = "cached" THEN CachedReturn(p, r) ELSE ServiceReturn(p, r)

Goto(p, label, l) == Jump(p, label, l, cur[p]) /\ UNCHANGED <<cacheVars, marks>>

\* the first step of a request: the decorator's lookups start at the cache
Entry(r) ==
    IF r.via = "cached" /\ r.op \in {"GetProfile", "GetUserByID"}
    THEN "CachedGet" ELSE r.op

\* a caller that is not inside an operation starts one
Begin(p, r) ==
    /\ pc[p] \in {"idle", "done"}
    /\ req' = [req EXCEPT ![p] = r]
    /\ pc' = [pc EXCEPT ![p] = Entry(r)]
    /\ cur' = [cur EXCEPT ![p] = Notes(r)]
    /\ hist' = [hist EXCEPT ![p] = Summary(p, r)]
    /\ UNCHANGED <<repoVars, now, rret, loc, ret, cacheVars, marks>>

Call(p, R) == \E r \in R : Begin(p, r)

----------------------------------------------------------------------------
(* userService: the steps of its operations *)

\* Register, up to and including its GetByEmail call (lines 33-54)
RegisterCheck(p) ==
    /\ pc[p] = "Register"
    /\ UNCHANGED <<repoVars, now, rret, req>>
    /\ IF validateCreateUserRequest(req[p]) # Nil
       THEN Return(p, Failure(validateCreateUserRequest(req[p])))
       ELSE LET g == GetByEmail(req[p].Email)
            IN  IF g.err # Nil /\ g.err # ErrUserNotFound THEN Return(p, Failure(g.err))
                ELSE IF g.err = Nil THEN Return(p, Failure(ErrUserAlreadyExists))
                ELSE Goto(p, "RegisterCreate", NoLoc)

\* Register, from hashing the password to its return (lines 56-89)
RegisterCreate(p) ==
    /\ pc[p] = "RegisterCreate"
    /\ Normalize(req[p].Email) \notin DOMAIN emails => nextID <= MaxID
    /\ \E t \in Clock2 :
        LET role == IF req[p].Role = "" THEN "user" ELSE req[p].Role
            user == User("", TrimSpace(req[p].Name), Normalize(req[p].Email),
                         hashPassword(req[p].Password), role, 0, 0)
            c == Create(user, t[1], t[2])
        IN  /\ users' = c.users
            /\ emails' = c.emails
            /\ nextID' = c.nextID
            /\ now' = IF c.err = Nil THEN t[2] ELSE now
            /\ IF c.err # Nil THEN Return(p, Failure(c.err))
               ELSE Return(p, Result(Nil, ToResponse(c.user)))
    /\ UNCHANGED <<rret, req>>

\* Login (lines 92-127)
Login(p) ==
    /\ pc[p] = "Login"
    /\ UNCHANGED <<repoVars, now, rret, req>>
    /\ IF validateLoginRequest(req[p]) # Nil
       THEN Return(p, Failure(validateLoginRequest(req[p])))
       ELSE LET g == GetByEmail(Normalize(req[p].Email))
            IN  IF g.err = ErrUserNotFound THEN Return(p, Failure(ErrInvalidCredentials))
                ELSE IF g.err # Nil THEN Return(p, Failure(g.err))
                ELSE IF ~verifyPassword(g.user.Password, req[p].Password)
                     THEN Return(p, Failure(ErrInvalidCredentials))
                ELSE Return(p, Result(Nil, [token |-> GenerateToken(g.user, now),
                                            user |-> ToResponse(g.user)]))

\* GetProfile (lines 130-137) and GetUserByID (lines 220-227)
GetProfile(p) ==
    /\ pc[p] \in {"GetProfile", "GetUserByID"}
    /\ UNCHANGED <<repoVars, now, rret, req>>
    /\ LET g == GetByID(req[p].id)
       IN  IF g.err # Nil THEN Return(p, Failure(g.err))
           ELSE Return(p, Result(Nil, ToResponse(g.user)))

\* UpdateProfile, up to the decision whether the new email must be looked up
\* (lines 140-162)
UpdateProfileGet(p) ==
    /\ pc[p] = "UpdateProfile"
    /\ UNCHANGED <<repoVars, now, rret, req>>
    /\ LET g == GetByID(req[p].id)
       IN  IF g.err # Nil THEN Return(p, Failure(g.err))
           ELSE IF validateUpdateUserRequest(req[p]) # Nil
                THEN Return(p, Failure(validateUpdateUserRequest(req[p])))
           ELSE LET named == IF req[p].Name # None
                             THEN [g.user EXCEPT !.Name = TrimSpace(req[p].Name[1])]
                             ELSE g.user
                IN  IF req[p].Email # None /\ Normalize(req[p].Email[1]) # g.user.Email
                    THEN Goto(p, "UpdateProfileEmail", named)
                    ELSE Goto(p, "UpdateProfileUpdate",
                              IF req[p].Role # None
                              THEN [named EXCEPT !.Role = req[p].Role[1]] ELSE named)

\* UpdateProfile: is the new email taken? (lines 163-173)
UpdateProfileEmail(p) ==
    /\ pc[p] = "UpdateProfileEmail"
    /\ UNCHANGED <<repoVars, now, rret, req>>
    /\ LET g == GetByEmail(Normalize(req[p].Email[1]))
           mailed == [loc[p] EXCEPT !.Email = Normalize(req[p].Email[1])]
       IN  IF g.err # Nil /\ g.err # ErrUserNotFound THEN Return(p, Failure(g.err))
           ELSE IF g.err = Nil THEN Return(p, Failure(ErrUserAlreadyExists))
           ELSE Goto(p, "UpdateProfileUpdate",
                     IF req[p].Role # None
                     THEN [mailed EXCEPT !.Role = req[p].Role[1]] ELSE mailed)

\* UpdateProfile: the repository update and the return (lines 179-185)
UpdateProfileUpdate(p) ==
    /\ pc[p] = "UpdateProfileUpdate"
    /\ LET u == Update(req[p].id, loc[p], now)
       IN  /\ users' = u.users
           /\ emails' = u.emails
           /\ IF u.err # Nil THEN Return(p, Failure(u.err))
              ELSE Return(p, Result(Nil, ToResponse(u.user)))
    /\ UNCHANGED <<nextID, now, rret, req>>

\* a limit that is defaulted but not capped
ServiceLimitUncapped(limit) == IF limit <= 0 THEN 10 ELSE limit

\* GetUsers: the default and the maximum of the limit (lines 190-195)
ServiceLimit(limit) ==
    LET l0 == IF limit <= 0 THEN 10 ELSE limit
    IN  IF l0 > 100 THEN 100 ELSE l0

\* GetUsers: no negative offset (lines 196-198)
ServiceOffset(offset) == IF offset < 0 THEN 0 ELSE offset

\* GetUsers: the limits and the List call (lines 188-203)
GetUsersList(p) ==
    /\ pc[p] = "GetUsers"
    /\ UNCHANGED <<repoVars, now, rret, req>>
    /\ \E page \in List(ServiceLimit(req[p].limit), ServiceOffset(req[p].offset)) :
          Goto(p, "GetUsersCount", page)

\* GetUsers: the Count call and the conversion (lines 205-217)
GetUsersCount(p) ==
    /\ pc[p] = "GetUsersCount"
    /\ (req[p].via = "cached" /\ loc[p] # <<>>) => Len(warm) < MaxWarm
    /\ UNCHANGED <<repoVars, now, rret, req>>
    /\ Return(p, Result(Nil, [users |-> [i \in 1..Len(loc[p]) |-> ToResponse(loc[p][i])],
                              total |-> Count]))

\* DeleteUser (lines 230-232)
DeleteUser(p) ==
    /\ pc[p] = "DeleteUser"
    /\ LET d == Delete(req[p].id)
       IN  /\ users' = d.users
           /\ emails' = d.emails
           /\ Return(p, Failure(d.err))
    /\ UNCHANGED <<nextID, now, rret, req>>

\* a refresh that takes the account from the cache when it is there
RefreshTokenFromCache(p) ==
    /\ pc[p] = "RefreshToken"
    /\ UNCHANGED <<repoVars, now, rret, req>>
    /\ LET c == CacheGetUser(req[p].id, TRUE)
           g == GetByID(req[p].id)
       IN  IF c.err = Nil THEN Return(p, Result(Nil, GenerateToken(c.user[1], now)))
           ELSE IF g.err # Nil THEN Return(p, Failure(g.err))
           ELSE Return(p, Result(Nil, GenerateToken(g.user, now)))

\* RefreshToken (lines 235-247)
RefreshToken(p) ==
    /\ pc[p] = "RefreshToken"
    /\ UNCHANGED <<repoVars, now, rret, req>>
    /\ LET g == GetByID(req[p].id)
       IN  IF g.err # Nil THEN Return(p, Failure(g.err))
           ELSE Return(p, Result(Nil, GenerateToken(g.user, now)))

----------------------------------------------------------------------------
(* cachedUserService: the cache calls the decorator makes around the       *)
(* wrapped service.  A cache call that fails is logged and otherwise       *)
(* ignored.                                                                *)

\* GetProfile (lines 75-93) and GetUserByID (lines 174-192): the cache read
CachedGet(p) ==
    /\ pc[p] = "CachedGet"
    /\ UNCHANGED <<repoVars, now, rret, req, cacheVars, marks>>
    /\ \E ok \in BOOLEAN :
        LET g == CacheGetUser(req[p].id, ok)
        IN  IF g.err = Nil
            THEN Finish(p, Result(Nil, g.user[1]),
                        [cur[p] EXCEPT !.hit = TRUE,
                                       !.stale = req[p].id \in marks.kept \cup marks.rewritten])
            ELSE Jump(p, req[p].op, NoLoc,
                      IF g.err # ErrUserNotFound
                      THEN [cur[p] EXCEPT !.fails = @ \cup {"get"}] ELSE cur[p])

\* a decorator that returns the error of a failed SetUser to its caller
SetOrFail(p, id, user, r) ==
    /\ \E ok \in BOOLEAN :
        LET s == CacheSetUser(id, user, cacheTTL, ok)
        IN  /\ cache' = s.cache
            /\ marks' = MarkSet(id, user, s)
            /\ IF s.err # Nil
               THEN Finish(p, Failure(s.err), [cur[p] EXCEPT !.fails = @ \cup {"set"}])
               ELSE Finish(p, r, cur[p])
    /\ UNCHANGED <<repoVars, now, rret, req, warm>>

\* s.cache.SetUser(ctx, id, user, s.cacheTTL) and the return of r after it
SetAndReturn(p, id, user, r) ==
    /\ \E ok \in BOOLEAN :
        LET s == CacheSetUser(id, user, cacheTTL, ok)
        IN  /\ cache' = s.cache
            /\ marks' = IF s.err # Nil /\ "delete" \in cur[p].fails
                        THEN MarkKept(id) ELSE MarkSet(id, user, s)
            /\ Finish(p, r, IF s.err # Nil
                            THEN [cur[p] EXCEPT !.fails = @ \cup {"set"}] ELSE cur[p])
    /\ UNCHANGED <<repoVars, now, rret, req, warm>>

\* Register (lines 41-49)
CachedRegisterSet(p) ==
    /\ pc[p] = "CachedSet" /\ req[p].op = "Register"
    /\ SetAndReturn(p, loc[p].val.ID, loc[p].val, loc[p])

\* Login (lines 63-71)
CachedLoginSet(p) ==
    /\ pc[p] = "CachedSet" /\ req[p].op = "Login"
    /\ SetAndReturn(p, loc[p].val.user.ID, loc[p].val.user, loc[p])

\* a lookup that returns what the service found without caching it
CachedLookupNoSet(p) ==
    /\ pc[p] = "CachedSet" /\ req[p].op \in {"GetProfile", "GetUserByID"}
    /\ Finish(p, loc[p], cur[p])
    /\ UNCHANGED <<repoVars, now, rret, req, cacheVars, marks>>

\* GetProfile (lines 100-108) and GetUserByID (lines 199-207)
CachedLookupSet(p) ==
    /\ pc[p] = "CachedSet" /\ req[p].op \in {"GetProfile", "GetUserByID"}
    /\ SetAndReturn(p, req[p].id, loc[p].val, loc[p])

\* an UpdateProfile that goes on to cache the user without invalidating
CachedUpdateSkipInvalidate(p) ==
    /\ pc[p] = "CachedInvalidate" /\ req[p].op = "UpdateProfile"
    /\ Jump(p, "CachedSet", loc[p], cur[p])
    /\ UNCHANGED <<repoVars, now, rret, req, cacheVars, marks>>

\* UpdateProfile (lines 123-128): the entry is invalidated
CachedUpdateInvalidate(p) ==
    /\ pc[p] = "CachedInvalidate" /\ req[p].op = "UpdateProfile"
    /\ \E ok \in BOOLEAN :
        LET d == CacheDeleteUser(req[p].id, ok)
        IN  /\ cache' = d.cache
            /\ marks' = IF d.err = Nil THEN MarkGone(req[p].id) ELSE marks
            /\ Jump(p, "CachedSet", loc[p],
                    IF d.err # Nil
                    THEN [cur[p] EXCEPT !.fails = @ \cup {"delete"}] ELSE cur[p])
    /\ UNCHANGED <<repoVars, now, rret, req, warm>>

\* UpdateProfile (lines 130-137): the updated user is cached
CachedUpdateSet(p) ==
    /\ pc[p] = "CachedSet" /\ req[p].op = "UpdateProfile"
    /\ SetAndReturn(p, req[p].id, loc[p].val, loc[p])

\* DeleteUser (lines 222-230)
CachedDeleteInvalidate(p) ==
    /\ pc[p] = "CachedInvalidate" /\ req[p].op = "DeleteUser"
    /\ \E ok \in BOOLEAN :
        LET d == CacheDeleteUser(req[p].id, ok)
            m == IF d.err = Nil THEN MarkGone(req[p].id) ELSE MarkKept(req[p].id)
        IN  /\ cache' = d.cache
            /\ marks' = [m EXCEPT !.deleted = @ \cup {req[p].id}]
            /\ Finish(p, Failure(Nil),
                      IF d.err # Nil
                      THEN [cur[p] EXCEPT !.fails = @ \cup {"delete"}] ELSE cur[p])
    /\ UNCHANGED <<repoVars, now, rret, req, warm>>

\* a warming task whose failed cache write becomes the result of the callers
WarmReported(k) ==
    /\ k \in 1..Len(warm)
    /\ \E ok \in BOOLEAN :
        LET user == Head(warm[k])
            s == CacheSetUser(user.ID, user, cacheTTL, ok)
        IN  /\ cache' = s.cache
            /\ marks' = MarkSet(user.ID, user, s)
            /\ ret' = IF ok THEN ret ELSE [p \in DOMAIN ret |-> Failure(s.err)]
    /\ warm' = IF Len(warm[k]) = 1
               THEN [i \in 1..(Len(warm) - 1) |-> IF i < k THEN warm[i] ELSE warm[i + 1]]
               ELSE [warm EXCEPT ![k] = Tail(@)]
    /\ UNCHANGED <<repoVars, now, rret, pc, req, loc, cur, hist>>

\* GetUsers (lines 159-168): one turn of the loop of the k-th warming task.
\* A task started on an empty page does nothing and is not kept.
Warm(k) ==
    /\ k \in 1..Len(warm)
    /\ \E ok \in BOOLEAN :
        LET user == Head(warm[k])
            s == CacheSetUser(user.ID, user, cacheTTL, ok)
        IN  /\ cache' = s.cache
            /\ marks' = MarkSet(user.ID, user, s)
    /\ warm' = IF Len(warm[k]) = 1
               THEN [i \in 1..(Len(warm) - 1) |-> IF i < k THEN warm[i] ELSE warm[i + 1]]
               ELSE [warm EXCEPT ![k] = Tail(@)]
    /\ UNCHANGED <<repoVars, now, rret, procVars, cur, hist>>

InitCallers(P) ==
    /\ pc = [p \in P |-> "idle"]
    /\ req = [p \in P |-> [op |-> "none"]]
    /\ loc = [p \in P |-> NoLoc]
    /\ ret = [p \in P |-> [err |-> Nil, val |-> None]]
    /\ cur = [p \in P |-> NoNotes]
    /\ hist = [p \in P |-> NoNotes]

----------------------------------------------------------------------------
(* SpecRace: NRace callers register concurrently, each with some spelling  *)
(* of the same email.                                                      *)

NRace == 3

\* spellings of one address: case and surrounding whitespace vary
SpellingsA == {<<"a", "@", ".">>, <<"A", "@", ".">>, <<" ", "a", "@", ".", " ">>}
Password0 == <<"s", "e", "c", "r", "e", "t">>

RaceRequests ==
    {[op |-> "Register", via |-> "svc", Name |-> <<"A", "l">>, Email |-> e,
      Password |-> Password0, Role |-> ""] : e \in SpellingsA}

InitRace ==
    /\ NewMemoryUserRepository
    /\ now = 0
    /\ rret = [op |-> "none"]
    /\ pc = [p \in 1..NRace |-> "Register"]
    /\ req \in [1..NRace -> RaceRequests]
    /\ loc = [p \in 1..NRace |-> NoLoc]
    /\ ret = [p \in 1..NRace |-> [err |-> Nil, val |-> None]]
    /\ NoCache
    /\ cur = [p \in 1..NRace |-> Notes(req[p])]
    /\ hist = [p \in 1..NRace |-> NoNotes]

NextRace ==
    \/ \E p \in DOMAIN pc : RegisterCheck(p)
    \/ \E p \in DOMAIN pc : RegisterCreate(p)
    \/ Tick

SpecRace == InitRace /\ [][NextRace]_vars

(* C3: when N registrations with the same email run concurrently, under    *)
(* every interleaving exactly one returns success, the other N-1 return    *)
(* already-exists, and exactly one account with that email is stored.      *)
C3_OneWinner ==
    (\A p \in DOMAIN pc : pc[p] = "done") =>
        /\ Cardinality({p \in DOMAIN pc : ret[p].err = Nil}) = 1
        /\ Cardinality({p \in DOMAIN pc : ret[p].err = ErrUserAlreadyExists}) = NRace - 1
        /\ Cardinality({i \in DOMAIN users : users[i].Email = <<"a", "@", ".">>}) = 1

\* all have returned, and at least two of them had passed the duplicate lookup
\* before the winner stored its account: they lost at Create
C3_Witness ==
    /\ \A p \in DOMAIN pc : pc[p] = "done"
    /\ \E p, q \in DOMAIN pc :
          /\ p # q
          /\ req[p].Email # req[q].Email
          /\ ret[p].err = Nil
          /\ ret[q].err = ErrUserAlreadyExists

----------------------------------------------------------------------------
(* SpecSvc: one caller runs operations of the bare business service, one   *)
(* after another.                                                          *)

SvcIDs == {Itoa(n) : n \in 1..MaxID}
SvcEmails ==
    SpellingsA \cup {<<"b", "@", ".">>, <<"a">>}
Name0 == <<"A", "l">>
Name1 == <<" ", "A", "l">>        \* trims to Name0
WrongPassword == <<"a", "b", "c">>

\* a valid registration in each spelling, and one request per way of varying it
RegisterRequests(via) ==
    {[op |-> "Register", via |-> via, Name |-> Name0, Email |-> e,
      Password |-> Password0, Role |-> ""] : e \in SvcEmails}
    \cup {[op |-> "Register", via |-> via, Name |-> v[1], Email |-> <<"b", "@", ".">>,
           Password |-> v[2], Role |-> v[3]] :
             v \in {<<<<"B">>, Password0, "">>, <<Name0, WrongPassword, "">>,
                    <<Name1, Password0, "admin">>}}
LoginRequests(via) ==
    {[op |-> "Login", via |-> via, Email |-> e, Password |-> Password0] : e \in SvcEmails}
    \cup {[op |-> "Login", via |-> via, Email |-> <<"A", "@", ".">>, Password |-> w] :
             w \in {WrongPassword, <<>>}}
UpdateRequests(via) ==
    {[op |-> "UpdateProfile", via |-> via, id |-> i, Name |-> v[1], Email |-> v[2],
      Role |-> v[3]] :
        i \in SvcIDs,
        v \in {<<None, None, None>>,
               <<Some(Name1), None, None>>,
               <<Some(<<"B">>), None, None>>,
               <<None, Some(<<"B", "@", ".">>), None>>,
               <<None, Some(<<"a", "@", ".">>), None>>,
               <<None, Some(<<"x">>), None>>,
               <<None, None, Some("admin")>>}}
IDRequests(op, via) == {[op |-> op, via |-> via, id |-> i] : i \in SvcIDs}
ListRequests(via) ==
    {[op |-> "GetUsers", via |-> via, limit |-> l[1], offset |-> l[2]] :
        l \in {<<0, 0>>, <<1, 1>>}}

SvcRequests ==
    RegisterRequests("svc") \cup LoginRequests("svc") \cup UpdateRequests("svc")
    \cup IDRequests("GetProfile", "svc") \cup IDRequests("GetUserByID", "svc")
    \cup IDRequests("DeleteUser", "svc") \cup IDRequests("RefreshToken", "svc")
    \cup ListRequests("svc")

InitSvc ==
    /\ NewMemoryUserRepository
    /\ now = 0
    /\ rret = [op |-> "none"]
    /\ InitCallers({1})
    /\ NoCache

NextSvc ==
    \/ Call(1, SvcRequests)
    \/ RegisterCheck(1)
    \/ RegisterCreate(1)
    \/ Login(1)
    \/ GetProfile(1)
    \/ UpdateProfileGet(1)
    \/ UpdateProfileEmail(1)
    \/ UpdateProfileUpdate(1)
    \/ GetUsersList(1)
    \/ GetUsersCount(1)
    \/ DeleteUser(1)
    \/ RefreshToken(1)
    \/ Tick

SpecSvc == InitSvc /\ [][NextSvc]_vars

(* C4: after Register succeeds with an email E, a later Register with any  *)
(* case or surrounding-whitespace variant of E fails with already-exists,  *)
(* and a login by any case variant of E finds exactly that one account.    *)
C4_VariantsAreOneEmail ==
    \A p \in DOMAIN pc :
        /\ (/\ pc[p] = "done" /\ req[p].op = "Register"
            /\ validateCreateUserRequest(req[p]) = Nil
            /\ cur[p].holders # {})
           => ret[p].err = ErrUserAlreadyExists
        /\ (/\ pc[p] = "done" /\ req[p].op = "Login"
            /\ validateLoginRequest(req[p]) = Nil
            /\ cur[p].holders # {})
           => /\ Cardinality(cur[p].holders) = 1
              /\ ret[p].err \in {Nil, ErrInvalidCredentials}
              /\ ret[p].err = Nil =>
                    /\ ret[p].val.user.ID \in cur[p].holders
                    /\ ret[p].val.user = ToResponse(users[ret[p].val.user.ID])
              /\ ret[p].err = ErrInvalidCredentials =>
                    \A i \in cur[p].holders :
                        ~verifyPassword(users[i].Password, req[p].Password)

\* a registration in another spelling of a registered email was just refused
C4_Witness ==
    /\ pc[1] = "done" /\ req[1].op = "Register"
    /\ ret[1].err = ErrUserAlreadyExists
    /\ \E i \in cur[1].holders : req[1].Email # users[i].Email

----------------------------------------------------------------------------
(* SpecSeq: one caller runs operations through the cache-aside decorator,  *)
(* one after another, while warming tasks run, entries expire and cache    *)
(* calls fail.  The requests change no email, so the step of UpdateProfile  *)
(* that looks the new email up is never reached and is left out of Next.   *)

Name2 == <<"B", "o">>

\* the account the caller reads and writes: the first one registered
SeqIDs == {"1"}

SeqRequests ==
    {[op |-> "Register", via |-> "cached", Name |-> Name0, Email |-> e,
      Password |-> Password0, Role |-> ""] : e \in {<<"a", "@", ".">>}}
    \cup {[op |-> "Login", via |-> "cached", Email |-> <<"A", "@", ".">>,
           Password |-> Password0]}
    \cup {[op |-> "UpdateProfile", via |-> "cached", id |-> i, Name |-> v,
           Email |-> None, Role |-> None] : i \in SeqIDs, v \in {None, Some(Name2)}}
    \cup {[op |-> o, via |-> "cached", id |-> i] :
             o \in {"GetProfile", "GetUserByID", "DeleteUser", "RefreshToken"},
             i \in SeqIDs}
    \cup {[op |-> "GetUsers", via |-> "cached", limit |-> 0, offset |-> 0]}

InitSeq ==
    /\ NewMemoryUserRepository
    /\ now = 0
    /\ rret = [op |-> "none"]
    /\ NoCache
    /\ InitCallers({1})

NextSeq ==
    \/ Call(1, SeqRequests)
    \/ RegisterCheck(1)
    \/ RegisterCreate(1)
    \/ Login(1)
    \/ GetProfile(1)
    \/ UpdateProfileGet(1)
    \/ UpdateProfileUpdate(1)
    \/ GetUsersList(1)
    \/ GetUsersCount(1)
    \/ DeleteUser(1)
    \/ RefreshToken(1)
    \/ CachedGet(1)
    \/ CachedRegisterSet(1)
    \/ CachedLoginSet(1)
    \/ CachedLookupSet(1)
    \/ CachedUpdateInvalidate(1)
    \/ CachedUpdateSet(1)
    \/ CachedDeleteInvalidate(1)
    \/ \E k \in 1..Len(warm) : Warm(k)
    \/ \E key \in DOMAIN cache : Expire(key)
    \/ Tick

SpecSeq == InitSeq /\ [][NextSeq]_vars

\* what the bare service returns for a lookup of id in the current state
BareLookup(id) ==
    LET g == GetByID(id)
    IN  IF g.err # Nil THEN Failure(g.err) ELSE Result(Nil, ToResponse(g.user))

\* caller p has just finished GetProfile(id) through the decorator, right
\* after an UpdateProfile(id) through the decorator that succeeded and changed
\* the projection
ReadAfterUpdate(p) ==
    /\ pc[p] = "done" /\ req[p].via = "cached" /\ req[p].op = "GetProfile"
    /\ hist[p].op = "UpdateProfile"
    /\ hist[p].pre # Some(hist[p].val)

TwoLookups(p) ==
    /\ pc[p] = "done" /\ req[p].via = "cached" /\ req[p].op = "GetUserByID"
    /\ hist[p].op = "GetUserByID"
    /\ ret[p].err = Nil /\ cur[p].fails = {} /\ ~cur[p].expired

\* the calls the two lookups made to the business service
ServiceCalls(p) ==
    (IF hist[p].called THEN 1 ELSE 0) + (IF cur[p].svc # None THEN 1 ELSE 0)

(* C7 as stated: two consecutive lookups of one id through the decorator,  *)
(* with no write in between and every cache call succeeding, cause exactly *)
(* one call to the business service (even read as excluding an expiry of   *)
(* the entry between the two).                                             *)
C7_ExactlyOneCall ==
    \A p \in DOMAIN pc :
        TwoLookups(p) => ServiceCalls(p) = 1

(* C7, amended: two consecutive lookups of one id through the decorator,   *)
(* with no write in between, every cache call succeeding and the entry not *)
(* expiring meanwhile, cause at most one call to the business service: one *)
(* if the first lookup finds no entry, none if the entry is already cached; *)
(* the second lookup is always answered from the cache.                    *)
C7_AtMostOneCall ==
    \A p \in DOMAIN pc :
        TwoLookups(p) =>
            /\ ServiceCalls(p) = IF hist[p].hit THEN 0 ELSE 1
            /\ cur[p].hit

\* the first lookup missed and called the service, the second one hit
C7_Witness ==
    /\ TwoLookups(1)
    /\ ~hist[1].hit /\ hist[1].called
    /\ cur[1].hit /\ cur[1].svc = None

(* C8: whenever the wrapped business call succeeds, the decorator returns  *)
(* that call's result to its caller, whichever of its cache get, set and   *)
(* delete calls fail.                                                      *)
C8_ServiceResultReturned ==
    \A p \in DOMAIN pc :
        (/\ pc[p] = "done" /\ req[p].via = "cached"
         /\ cur[p].svc # None /\ cur[p].svc[1].err = Nil)
        => ret[p] = cur[p].svc[1]

\* the business call succeeded, every cache call after it failed, and the
\* caller has its result
C8_Witness ==
    /\ pc[1] = "done" /\ req[1].via = "cached" /\ req[1].op = "UpdateProfile"
    /\ cur[1].svc # None /\ cur[1].svc[1].err = Nil
    /\ cur[1].fails = {"delete", "set"}
    /\ ret[1].err = Nil

\* caller p has just finished a lookup through the decorator
LookupDone(p) ==
    /\ pc[p] = "done" /\ req[p].via = "cached"
    /\ req[p].op \in {"GetProfile", "GetUserByID"}

---------------------------------------------------------------------------------------------------------------------------------------------------
(* SpecConc: a caller that registers, lists and deletes, and a caller that *)
(* looks the first account up, run through the decorator at the same time, *)
(* while warming tasks run, entries expire and cache calls fail.           *)

Writer == "writer"
Reader == "reader"

WriterRequests ==
    {[op |-> "Register", via |-> "cached", Name |-> Name0,
      Email |-> <<"a", "@", ".">>, Password |-> Password0, Role |-> ""]}
    \cup {[op |-> "DeleteUser", via |-> "cached", id |-> i] : i \in SeqIDs}
    \cup {[op |-> "GetUsers", via |-> "cached", limit |-> 0, offset |-> 0]}

ReaderRequests ==
    {[op |-> o, via |-> "cached", id |-> i] :
        o \in {"GetProfile", "GetUserByID"}, i \in SeqIDs}

InitConc ==
    /\ NewMemoryUserRepository
    /\ now = 0
    /\ rret = [op |-> "none"]
    /\ NoCache
    /\ InitCallers({Writer, Reader})

NextConc ==
    \/ Call(Writer, WriterRequests)
    \/ Call(Reader, ReaderRequests)
    \/ RegisterCheck(Writer)
    \/ RegisterCreate(Writer)
    \/ GetUsersList(Writer)
    \/ GetUsersCount(Writer)
    \/ DeleteUser(Writer)
    \/ CachedRegisterSet(Writer)
    \/ CachedDeleteInvalidate(Writer)
    \/ CachedGet(Reader)
    \/ GetProfile(Reader)
    \/ CachedLookupSet(Reader)
    \/ \E k \in 1..Len(warm) : Warm(k)
    \/ \E key \in DOMAIN cache : Expire(key)

SpecConc == InitConc /\ [][NextConc]_vars

\* caller p has just finished a lookup of an account through the decorator
\* that it started after the deletion of that account had returned success
LookupAfterDelete(p) == LookupDone(p) /\ cur[p].after

----------------------------------------------------------------------------
(* jwtTokenService.ValidateToken and the JWT middleware.  An HTTP request  *)
(* that matches a route passes Authenticate (installed on the root router) *)
(* and then, on the admin subrouter, RequireAdmin, before its handler.     *)

\* the signing methods of type *jwt.SigningMethodHMAC
HMACAlgs == {"HS256", "HS384", "HS512"}

\* a ValidateToken that also requires the account of the token to be stored
\* with the role the token carries
ValidateTokenCurrent(tokenString, t) ==
    IF tokenString.Alg \notin HMACAlgs THEN [err |-> ErrInvalidToken, claims |-> None]
    ELSE IF DecodeSegment(tokenString.Sig)
                # Sign(tokenString.Alg, SecretKey, ClaimsOf(tokenString))
    THEN [err |-> ErrInvalidToken, claims |-> None]
    ELSE IF ~(t < tokenString.Exp) THEN [err |-> ErrInvalidToken, claims |-> None]
    ELSE IF tokenString.UserID \notin DOMAIN users
    THEN [err |-> ErrInvalidToken, claims |-> None]
    ELSE IF users[tokenString.UserID].Role # tokenString.Role
    THEN [err |-> ErrInvalidToken, claims |-> None]
    ELSE [err |-> Nil, claims |-> Some(ClaimsOf(tokenString))]

\* a ValidateToken that reads the claims without verifying the signature
ValidateTokenUnverified(tokenString, t) ==
    IF tokenString.Alg \notin HMACAlgs THEN [err |-> ErrInvalidToken, claims |-> None]
    ELSE IF ~(t < tokenString.Exp) THEN [err |-> ErrInvalidToken, claims |-> None]
    ELSE [err |-> Nil, claims |-> Some(ClaimsOf(tokenString))]

\* jwtTokenService.ValidateToken at time t: the method is of the HMAC
\* family, the signature is the one the service's key gives for the token's
\* method and content, exp is in the future, and the claims are read
ValidateToken(tokenString, t) ==
    IF tokenString.Alg \notin HMACAlgs THEN [err |-> ErrInvalidToken, claims |-> None]
    ELSE IF DecodeSegment(tokenString.Sig)
                # Sign(tokenString.Alg, SecretKey, ClaimsOf(tokenString))
    THEN [err |-> ErrInvalidToken, claims |-> None]
    ELSE IF ~(t < tokenString.Exp) THEN [err |-> ErrInvalidToken, claims |-> None]
    ELSE [err |-> Nil, claims |-> Some(ClaimsOf(tokenString))]

Unauthorized == "UNAUTHORIZED"
Forbidden == "FORBIDDEN"

skipPaths == {"/health", "/auth/register", "/auth/login"}

\* a shouldSkipPath that skips no path
shouldSkipNothing(path) == FALSE

shouldSkipPath(path) == path \in skipPaths

\* An Authorization header is absent (<<>>) or a scheme prefix followed by
\* credentials, which are empty (None) or a token.
extractTokenFromHeader(authHeader) ==
    IF authHeader = <<>> THEN None
    ELSE IF authHeader[1] # "Bearer " THEN None
    ELSE authHeader[2]

\* the routes registered by HealthRoutes, AuthRoutes, UserRoutes and
\* AdminRoutes; admin tells the routes of the subrouter that uses RequireAdmin
Routes ==
    {[method |-> "GET", path |-> "/health", handler |-> "Health", admin |-> FALSE],
     [method |-> "POST", path |-> "/auth/register", handler |-> "Register", admin |-> FALSE],
     [method |-> "POST", path |-> "/auth/login", handler |-> "Login", admin |-> FALSE],
     [method |-> "POST", path |-> "/auth/refresh", handler |-> "RefreshToken", admin |-> FALSE],
     [method |-> "GET", path |-> "/api/v1/profile", handler |-> "GetProfile", admin |-> FALSE],
     [method |-> "PUT", path |-> "/api/v1/profile", handler |-> "UpdateProfile", admin |-> FALSE],
     [method |-> "GET", path |-> "/api/v1/admin/users", handler |-> "GetUsers", admin |-> TRUE],
     [method |-> "GET", path |-> "/api/v1/admin/users/1", handler |-> "GetUserByID", admin |-> TRUE],
     [method |-> "DELETE", path |-> "/api/v1/admin/users/1", handler |-> "DeleteUser", admin |-> TRUE]}

\* Keys of context values.  context.Value finds a value only under a key
\* equal to the one it was stored under, and keys of different types are
\* never equal, whatever their text.
contextKey(name) == [type |-> "middleware.contextKey", name |-> name]
stringKey(name) == [type |-> "string", name |-> name]

userIDKey == contextKey("user_id")
userEmailKey == contextKey("user_email")
userRoleKey == contextKey("user_role")

\* context.WithValue and Context.Value (None is nil)
WithValue(ctx, key, val) == MapSet(ctx, key, val)
ContextValue(ctx, key) == IF key \in DOMAIN ctx THEN Some(ctx[key]) ELSE None

\* the request context before Authenticate has put anything into it
NoContext == EmptyMap

\* Observer: caller p's request passes the stage
Stage(p, stage, notes) == [notes EXCEPT !.chain = Append(@, stage)]

\* an Authenticate that writes the unauthorized response and calls next all
\* the same
AuthenticateFallThrough(p) ==
    /\ pc[p] = "Authenticate"
    /\ UNCHANGED <<repoVars, now, rret, req, cacheVars, marks>>
    /\ LET next == IF req[p].route.admin THEN "RequireAdmin" ELSE "Handler"
           tokenString == extractTokenFromHeader(req[p].Authorization)
       IN  IF shouldSkipPath(req[p].route.path)
           THEN Jump(p, next, NoContext, Stage(p, "Skipped", cur[p]))
           ELSE Jump(p, next, NoContext, Stage(p, "Rejected", cur[p]))

\* JWTMiddleware.Authenticate
Authenticate(p) ==
    /\ pc[p] = "Authenticate"
    /\ UNCHANGED <<repoVars, now, rret, req, cacheVars, marks>>
    /\ LET next == IF req[p].route.admin THEN "RequireAdmin" ELSE "Handler"
           tokenString == extractTokenFromHeader(req[p].Authorization)
       IN  IF shouldSkipPath(req[p].route.path)
           THEN Jump(p, next, NoContext, Stage(p, "Skipped", cur[p]))
           ELSE IF tokenString = None
           THEN Finish(p, Failure(Unauthorized), Stage(p, "Rejected", cur[p]))
           ELSE LET v == ValidateToken(tokenString[1], now)
                    notes == [cur[p] EXCEPT !.auth = Some(v)]
                IN  IF v.err # Nil
                    THEN Finish(p, Failure(Unauthorized), Stage(p, "Rejected", notes))
                    ELSE Jump(p, next,
                              WithValue(WithValue(WithValue(NoContext,
                                  userIDKey, v.claims[1].UserID),
                                  userEmailKey, v.claims[1].Email),
                                  userRoleKey, v.claims[1].Role),
                              Stage(p, "Authenticated", notes))

\* a RequireRole that lets every authenticated request pass
RequireRoleLax(p, role) ==
    /\ UNCHANGED <<repoVars, now, rret, req, cacheVars, marks>>
    /\ IF ContextValue(loc[p], userRoleKey) = None
       THEN Finish(p, Failure(Forbidden), Stage(p, "Forbidden", cur[p]))
       ELSE Jump(p, "Handler", loc[p], Stage(p, "Authorized", cur[p]))

\* JWTMiddleware.RequireRole(role)
RequireRole(p, role) ==
    /\ UNCHANGED <<repoVars, now, rret, req, cacheVars, marks>>
    /\ LET userRole == ContextValue(loc[p], userRoleKey)
       IN  IF userRole = None
           THEN Finish(p, Failure(Forbidden), Stage(p, "Forbidden", cur[p]))
           ELSE IF userRole[1] # role
           THEN Finish(p, Failure(Forbidden), Stage(p, "Forbidden", cur[p]))
           ELSE Jump(p, "Handler", loc[p], Stage(p, "Authorized", cur[p]))

\* JWTMiddleware.RequireAdmin
RequireAdmin(p) ==
    /\ pc[p] = "RequireAdmin"
    /\ RequireRole(p, "admin")

\* a getUserIDFromContext that answers a guest id when the context has none
getUserIDOrGuest(ctx) ==
    IF ContextValue(ctx, stringKey("user_id")) # None
    THEN ContextValue(ctx, stringKey("user_id"))[1] ELSE "guest"

\* UserHandler.getUserIDFromContext: the value under the string "user_id",
\* "" if there is none
getUserIDFromContext(ctx) ==
    IF ContextValue(ctx, stringKey("user_id")) # None
    THEN ContextValue(ctx, stringKey("user_id"))[1] ELSE ""

\* the handlers that act for the subject of the request's token
SubjectHandlers == {"GetProfile", "UpdateProfile", "RefreshToken"}

\* the 401 response the profile handlers write themselves
UserIDNotFound == "User ID not found in context"

\* The request has passed the middleware chain: its handler runs.  The
\* profile handlers (GetProfile, UpdateProfile, RefreshToken) and the GraphQL
\* me resolver first read the subject id from the context and answer
\* unauthorized without it; what the business service does with the call is
\* not followed here.
Handler(p) ==
    /\ pc[p] = "Handler"
    /\ UNCHANGED <<repoVars, now, rret, req, cacheVars, marks>>
    /\ LET notes == Stage(p, "Handler", cur[p])
           h == req[p].route.handler
       IN  IF h \in SubjectHandlers
           THEN LET userID == getUserIDFromContext(loc[p])
                IN  IF userID = "" THEN Finish(p, Failure(UserIDNotFound), notes)
                    ELSE Finish(p, Result(Nil, h), [notes EXCEPT !.subject = Some(userID)])
           ELSE IF h = "Me"
           THEN LET userID == ContextValue(loc[p], stringKey("userID"))
                IN  IF userID = None THEN Finish(p, Failure(Unauthorized), notes)
                    ELSE Finish(p, Result(Nil, h), [notes EXCEPT !.subject = userID])
           ELSE Finish(p, Result(Nil, h), notes)

----------------------------------------------------------------------------
(* SpecAuth: requests to the registered routes, with no Authorization      *)
(* header or with one, carrying genuine, forged, foreign-method and        *)
(* expiring tokens of both roles.                                          *)

AuthUsers ==
    {User("1", Name0, <<"a", "@", ".">>, Hash0, "user", 0, 0),
     User("2", Name0, <<"b", "@", ".">>, Hash0, "admin", 0, 0)}

AuthTokens ==
    {SignedToken(ClaimsOf(GenerateToken(u, 0)), a, k) :
        u \in AuthUsers, a \in {"HS256", "HS384", "none"}, k \in {SecretKey, "guess"}}

AuthHeaders ==
    {<<>>}
    \cup {<<s, c>> : s \in {"Bearer ", "Basic "},
                     c \in {None} \cup {Some(t) : t \in AuthTokens}}

\* the endpoint that serves GraphQL queries, the me query among them; the
\* code that mounts it is not part of the sources modelled here
GraphQLRoute == [method |-> "POST", path |-> "/query", handler |-> "Me", admin |-> FALSE]

HTTPRequests ==
    {[op |-> "Authenticate", via |-> "http", route |-> r, Authorization |-> h] :
        r \in Routes \cup {GraphQLRoute}, h \in AuthHeaders}

InitAuth ==
    /\ NewMemoryUserRepository
    /\ now = 0
    /\ rret = [op |-> "none"]
    /\ NoCache
    /\ InitCallers({1})

NextAuth ==
    \/ Call(1, HTTPRequests)
    \/ Authenticate(1)
    \/ RequireAdmin(1)
    \/ Handler(1)
    \/ Tick

SpecAuth == InitAuth /\ [][NextAuth]_vars

\* the routes the specification puts on the allow-list: health check,
\* registration, login
AllowListed == {"/health", "/auth/register", "/auth/login"}

\* the request of caller p carried a token that was valid when it was
\* checked and that names the standard role
ValidStandardToken(p) ==
    /\ cur[p].auth # None
    /\ cur[p].auth[1].err = Nil
    /\ cur[p].auth[1].claims[1].Role = "user"

(* C10: a request with a valid standard-role token to an admin-only route  *)
(* ends Forbidden; a request with no Authorization header to a protected   *)
(* route, admin-only routes included, ends Rejected as unauthorized, not   *)
(* Forbidden; a request with no Authorization header to an allow-listed    *)
(* route reaches its handler.                                              *)
C10_AuthorizationOutcomes ==
    \A p \in DOMAIN pc :
        (pc[p] = "done" /\ req[p].via = "http") =>
            /\ (req[p].route.admin /\ ValidStandardToken(p))
               => ret[p] = Failure(Forbidden)
            /\ (req[p].Authorization = <<>> /\ req[p].route.path \notin AllowListed)
               => ret[p] = Failure(Unauthorized)
            /\ (req[p].Authorization = <<>> /\ req[p].route.path \in AllowListed)
               => ret[p] = Result(Nil, req[p].route.handler)

\* a request to an admin-only route with a genuine, unexpired token of the
\* standard role has ended Forbidden
C10_Witness ==
    /\ pc[1] = "done" /\ req[1].via = "http"
    /\ req[1].route.admin
    /\ ValidStandardToken(1)
    /\ ret[1] = Failure(Forbidden)

----------------------------------------------------------------------------
\* The middleware chain as a state machine (C11)

\* the stages the middlewares put a request through, and the terminal ones
MiddlewareStages == {"Skipped", "Rejected", "Authenticated", "Forbidden", "Authorized"}
TerminalStages == {"Skipped", "Rejected", "Forbidden", "Authorized"}

\* the positions of the stages of S in the chain c
Positions(c, S) == {i \in 1..Len(c) : c[i] \in S}

\* the last middleware stage of a chain with at least one
Outcome(c) == c[CHOOSE i \in Positions(c, MiddlewareStages) :
                    \A j \in Positions(c, MiddlewareStages) : j <= i]

\* the chain c ends a request to a route (admin: it requires the admin role)
\* as the state machine says
ChainWellFormed(c, admin) ==
    /\ Positions(c, MiddlewareStages) # {}
    /\ Cardinality(Positions(c, TerminalStages))
           = IF Outcome(c) = "Authenticated" THEN 0 ELSE 1
    /\ Outcome(c) = "Authenticated" => ~admin
    /\ Cardinality(Positions(c, {"Handler"})) <= 1
    /\ Positions(c, {"Handler"}) # {}
           <=> Outcome(c) \in {"Skipped", "Authenticated", "Authorized"}
    /\ \A i \in Positions(c, {"Rejected", "Forbidden"}) : i = Len(c)

(* C11: every request that passes the middleware chain ends in exactly one *)
(* terminal outcome; its handler is invoked if and only if the request was *)
(* Skipped, or Authenticated on a route without a role requirement, or     *)
(* Authorized; a Rejected or Forbidden request never reaches the handler   *)
(* or the business service.                                                *)
C11_ChainOutcomes ==
    \A p \in DOMAIN pc :
        /\ (pc[p] = "done" /\ req[p].via = "http") =>
              /\ ChainWellFormed(cur[p].chain, req[p].route.admin)
              /\ Outcome(cur[p].chain) \in {"Rejected", "Forbidden"} =>
                    /\ ret[p].err \in {Unauthorized, Forbidden}
                    /\ cur[p].subject = None
        /\ pc[p] = "Handler" =>
              /\ cur[p].chain # <<>>
              /\ cur[p].chain[Len(cur[p].chain)]
                     \in {"Skipped", "Authorized"}
                         \cup (IF req[p].route.admin THEN {} ELSE {"Authenticated"})

\* a request with a token that does not verify has ended Rejected without
\* its handler having run, and this was its whole chain
C11_Witness ==
    /\ pc[1] = "done" /\ req[1].via = "http"
    /\ cur[1].auth # None
    /\ cur[1].auth[1].err # Nil
    /\ cur[1].chain = <<"Rejected">>
    /\ ret[1] = Failure(Unauthorized)

----------------------------------------------------------------------------
\* The identity the middleware attaches and the one its consumers read (C12)

\* the request of caller p carried a token that was valid when it was checked
ValidToken(p) == cur[p].auth # None /\ cur[p].auth[1].err = Nil

(* C12: for a request with a valid token to a protected route, the profile *)
(* handlers (GetProfile, UpdateProfile, RefreshToken) and the GraphQL me   *)
(* resolver obtain the subject id of the token from the context and call   *)
(* the business service with it, instead of answering unauthorized.        *)
C12_ConsumersReadIdentity ==
    \A p \in DOMAIN pc :
        (/\ pc[p] = "done" /\ req[p].via = "http"
         /\ req[p].route.handler \in SubjectHandlers \cup {"Me"}
         /\ ValidToken(p))
        => /\ ret[p].err = Nil
           /\ cur[p].subject = Some(cur[p].auth[1].claims[1].UserID)

----------------------------------------------------------------------------
\* The allow-listed paths (C13)

(* C13: for a request whose path is exactly /health, /auth/register or     *)
(* /auth/login the middleware invokes the handler without validating any   *)
(* token and attaches no identity to the request, whatever the             *)
(* Authorization header contains.                                          *)
C13_AllowListSkipsValidation ==
    \A p \in DOMAIN pc :
        (/\ pc[p] \in {"Authenticate", "RequireAdmin", "Handler", "done"}
         /\ req[p].via = "http" /\ req[p].route.path \in AllowListed) =>
            /\ cur[p].auth = None
            /\ pc[p] = "Handler" =>
                  loc[p] = NoContext /\ cur[p].chain = <<"Skipped">>
            /\ pc[p] = "done" =>
                  /\ cur[p].chain = <<"Skipped", "Handler">>
                  /\ ret[p] = Result(Nil, req[p].route.handler)
                  /\ cur[p].subject = None

\* a request to an allow-listed path whose Authorization header carries a
\* token signed with another key has been answered by its handler
C13_Witness ==
    /\ pc[1] = "done" /\ req[1].via = "http"
    /\ req[1].route.path \in AllowListed
    /\ req[1].Authorization # <<>>
    /\ req[1].Authorization[1] = "Bearer "
    /\ req[1].Authorization[2] # None
    /\ req[1].Authorization[2][1].Sig.mac[2] # SecretKey
    /\ ret[1] = Result(Nil, req[1].route.handler)

----------------------------------------------------------------------------
(* SpecToken: a token is issued for an account, held while time passes and *)
(* while its signature is altered or replaced, and then validated.        *)

\* the holder of the token has the service issue it
IssueToken(p) ==
    /\ pc[p] = "GenerateToken"
    /\ Goto(p, "Holding", [token |-> GenerateToken(req[p].user, now)])
    /\ UNCHANGED <<repoVars, now, rret, req>>

\* one byte of the signature is changed (or changed back)
FlipSignatureByte(p) ==
    /\ pc[p] = "Holding"
    /\ \E i \in 1..SigBytes :
          Goto(p, "Holding",
               [loc[p] EXCEPT !.token.Sig.flip =
                    IF i \in @ THEN @ \ {i} ELSE @ \cup {i}])
    /\ UNCHANGED <<repoVars, now, rret, req>>

\* the bits of the signature text that belong to no signature byte are
\* changed (or changed back)
FlipPaddingBits(p) ==
    /\ pc[p] = "Holding"
    /\ Goto(p, "Holding", [loc[p] EXCEPT !.token.Sig.pad = ~@])
    /\ UNCHANGED <<repoVars, now, rret, req>>

\* the methods and keys with which the content of a token is signed anew
ForgeAlgs == {"HS256", "HS384", "none"}
ForgeKeys == {SecretKey, "guess"}

\* the content of the token is signed anew, with some method and some key
Resign(p) ==
    /\ pc[p] = "Holding"
    /\ \E a \in ForgeAlgs, k \in ForgeKeys :
          Goto(p, "Holding",
               [token |-> SignedToken(ClaimsOf(loc[p].token), a, k)])
    /\ UNCHANGED <<repoVars, now, rret, req>>

\* the token is presented to ValidateToken; the token and the time of the
\* call are noted with the result
PresentToken(p) ==
    /\ pc[p] = "Holding"
    /\ LET v == ValidateToken(loc[p].token, now)
       IN  Finish(p, Result(v.err, [token |-> loc[p].token, at |-> now,
                                    claims |-> v.claims]), cur[p])
    /\ UNCHANGED <<repoVars, now, rret, req, cacheVars, marks>>

TokenRequests == {[op |-> "GenerateToken", via |-> "token", user |-> u] : u \in AuthUsers}

InitToken ==
    /\ NewMemoryUserRepository
    /\ now = 0
    /\ rret = [op |-> "none"]
    /\ NoCache
    /\ InitCallers({1})

NextToken ==
    \/ Call(1, TokenRequests)
    \/ IssueToken(1)
    \/ FlipSignatureByte(1)
    \/ FlipPaddingBits(1)
    \/ Resign(1)
    \/ PresentToken(1)
    \/ Tick

SpecToken == InitToken /\ [][NextToken]_vars

\* the token GenerateToken gave the holder p: the one for the account of the
\* request, issued when the presented token says it was
Issued(p) == GenerateToken(req[p].user, ret[p].val.token.Iat)

Presented(p) == pc[p] = "done" /\ req[p].via = "token"

(* C14: the token GenerateToken issues for an account validates, before   *)
(* its expiry, to the account's id, email and role; a token of which a     *)
(* signature byte has been changed, or which was signed with another       *)
(* secret, or which has expired, is rejected with invalid-token.  (The     *)
(* bytes are those of the signature, not the characters of its text.)      *)
C14_TokenRoundTrip ==
    \A p \in DOMAIN pc :
        Presented(p) =>
            LET tok == ret[p].val.token
                at == ret[p].val.at
            IN  /\ (DecodeSegment(tok.Sig) = DecodeSegment(Issued(p).Sig) /\ at < tok.Exp) =>
                      /\ ret[p].err = Nil
                      /\ ret[p].val.claims # None
                      /\ ret[p].val.claims[1].UserID = req[p].user.ID
                      /\ ret[p].val.claims[1].Email = req[p].user.Email
                      /\ ret[p].val.claims[1].Role = req[p].user.Role
                /\ (\/ tok.Sig.flip # {}
                    \/ tok.Sig.mac[2] # SecretKey
                    \/ ~(at < tok.Exp)) =>
                      /\ ret[p].err = ErrInvalidToken
                      /\ ret[p].val.claims = None

\* an issued token was presented unchanged before its expiry and the claims
\* of the account were returned
C14_Witness ==
    /\ Presented(1)
    /\ ret[1].val.token = Issued(1)
    /\ ret[1].val.at < ret[1].val.token.Exp
    /\ ret[1].err = Nil
    /\ ret[1].val.claims[1].UserID = req[1].user.ID

\* a token with one signature byte changed was presented before its expiry
\* and rejected
C14_WitnessTampered ==
    /\ Presented(1)
    /\ ret[1].val.token.Sig.flip # {}
    /\ ret[1].val.at < ret[1].val.token.Exp
    /\ ret[1].err = ErrInvalidToken

(* C15: ValidateToken accepts only HS256: a token that declares any other  *)
(* signing algorithm is rejected, even when its signature verifies under   *)
(* the shared secret.                                                      *)
C15_OnlyHS256 ==
    \A p \in DOMAIN pc :
        (Presented(p) /\ ret[p].val.token.Alg # "HS256")
            => ret[p].err = ErrInvalidToken

----------------------------------------------------------------------------
(* SpecSession: a client registers as an administrator, logs in, refreshes *)
(* its token and sends requests with the tokens it has received, while an  *)
(* operator demotes or deletes the account and time passes.                *)

Client == "client"
Operator == "operator"

\* the tokens caller p carried into its current operation
Held(p) == IF "wallet" \in DOMAIN req[p] THEN req[p].wallet ELSE {}

\* the token the operation of caller p has just returned, if it returned one
Received(p) ==
    IF pc[p] = "done" /\ req[p].via = "svc" /\ ret[p].err = Nil
    THEN IF req[p].op = "Login" THEN {ret[p].val.token}
         ELSE IF req[p].op = "RefreshToken" THEN {ret[p].val}
         ELSE {}
    ELSE {}

\* the tokens caller p has received so far
Wallet(p) == Held(p) \cup Received(p)

SessionEmail == <<"a", "@", ".">>
ProfileRoute == [method |-> "GET", path |-> "/api/v1/profile",
                 handler |-> "GetProfile", admin |-> FALSE]
AdminRoute == [method |-> "GET", path |-> "/api/v1/admin/users",
               handler |-> "GetUsers", admin |-> TRUE]

\* what the client may do next; it keeps its tokens
ClientRequests ==
    {[wallet |-> Wallet(Client)] @@ r :
        r \in {[op |-> "Register", via |-> "svc", Name |-> Name0, Email |-> SessionEmail,
                Password |-> Password0, Role |-> "admin"],
               [op |-> "Login", via |-> "svc", Email |-> SessionEmail,
                Password |-> Password0]}}
    \cup {[op |-> "RefreshToken", via |-> "svc", id |-> t.UserID,
           wallet |-> Wallet(Client)] : t \in Wallet(Client)}
    \cup {[op |-> "Authenticate", via |-> "http", route |-> r,
           Authorization |-> <<"Bearer ", Some(t)>>, wallet |-> Wallet(Client)] :
             r \in {ProfileRoute, AdminRoute}, t \in Wallet(Client)}

\* what the operator may do to the account
OperatorRequests ==
    {[op |-> "UpdateProfile", via |-> "svc", id |-> "1", Name |-> None, Email |-> None,
      Role |-> Some("user")],
     [op |-> "DeleteUser", via |-> "svc", id |-> "1"]}

InitSession ==
    /\ NewMemoryUserRepository
    /\ now = 0
    /\ rret = [op |-> "none"]
    /\ NoCache
    /\ InitCallers({Client, Operator})

NextSession ==
    \/ Call(Client, ClientRequests)
    \/ Call(Operator, OperatorRequests)
    \/ RegisterCheck(Client)
    \/ RegisterCreate(Client)
    \/ Login(Client)
    \/ RefreshToken(Client)
    \/ Authenticate(Client)
    \/ RequireAdmin(Client)
    \/ Handler(Client)
    \/ UpdateProfileGet(Operator)
    \/ UpdateProfileUpdate(Operator)
    \/ DeleteUser(Operator)
    \/ Tick

SpecSession == InitSession /\ [][NextSession]_vars

\* the request of the client went through the middlewares with a token
Sent(p) ==
    /\ pc[p] = "done"
    /\ "via" \in DOMAIN req[p]
    /\ req[p].via = "http"

\* the token of that request
Bearer(p) == req[p].Authorization[2][1]

(* C16: a token issued for an account keeps passing Authenticate, with the *)
(* role it was issued with, after the account is deleted or its role is    *)
(* changed, until the token expires; a token issued to an administrator    *)
(* still reaches Authorized on an admin-only route after the account has   *)
(* been demoted.                                                           *)
C16_TokenOutlivesAccount ==
    Sent(Client) =>
        \/ ~(now < Bearer(Client).Exp)
        \/ /\ ValidToken(Client)
           /\ cur[Client].auth[1].claims[1].UserID = Bearer(Client).UserID
           /\ cur[Client].auth[1].claims[1].Role = Bearer(Client).Role
           /\ cur[Client].chain[1] = "Authenticated"
           /\ (req[Client].route.admin /\ Bearer(Client).Role = "admin") =>
                 /\ cur[Client].chain = <<"Authenticated", "Authorized", "Handler">>
                 /\ ret[Client] = Result(Nil, req[Client].route.handler)

\* a request to the admin-only route with a token issued to the account when
\* it was an administrator was Authorized although the account is stored
\* with the standard role by now
C16_Witness ==
    /\ Sent(Client)
    /\ req[Client].route.admin
    /\ Bearer(Client).UserID \in DOMAIN users
    /\ users[Bearer(Client).UserID].Role = "user"
    /\ Bearer(Client).Role = "admin"
    /\ cur[Client].chain = <<"Authenticated", "Authorized", "Handler">>

\* the same, and the account is not stored any more
C16_WitnessDeleted ==
    /\ Sent(Client)
    /\ req[Client].route.admin
    /\ Bearer(Client).UserID \notin DOMAIN users
    /\ cur[Client].chain = <<"Authenticated", "Authorized", "Handler">>

(* C17: RefreshToken issues a new valid token and leaves the tokens issued *)
(* before for the same account valid: after any number of logins and       *)
(* refreshes, every token issued for the account that has not expired      *)
(* passes ValidateToken.                                                   *)
C17_RefreshKeepsTokens ==
    \A t \in Wallet(Client) :
        now < t.Exp =>
            /\ ValidateToken(t, now).err = Nil
            /\ ValidateToken(t, now).claims = Some(ClaimsOf(t))

\* a refresh has returned a token, the client holds another one from before,
\* and neither has expired
C17_Witness ==
    /\ pc[Client] = "done" /\ req[Client].op = "RefreshToken" /\ ret[Client].err = Nil
    /\ Held(Client) \ Received(Client) # {}
    /\ \A t \in Wallet(Client) : now < t.Exp

----------------------------------------------------------------------------
(* SpecList: accounts are created one after the other, some at the same    *)
(* reading of the clock, and pages of the list are read.                   *)

MaxList == 5
MaxListClock == 4

\* the next account is created, now or a tick later
ListCreate ==
    /\ nextID <= MaxList
    /\ \E t \in {now, now + 1} :
        /\ t <= MaxListClock
        /\ LET user == User("", Name0, <<Itoa(nextID), "@", ".">>, Hash0, "user", 0, 0)
               r == Create(user, t, t)
           IN  /\ users' = r.users
               /\ emails' = r.emails
               /\ nextID' = r.nextID
               /\ now' = t
               /\ rret' = [op |-> "Create", err |-> r.err]
    /\ UNCHANGED <<procVars, cacheVars, obsVars>>

\* the offsets asked for: the first pages, and those around the end
ListOffsets == {o \in {0, 2, Count - 1, Count, Count + 1} : o >= 0}

\* List(ctx, limit, offset) is called and returns a page.  List changes
\* nothing, so a call that follows another call can return nothing that it
\* could not return in place of that call: only calls that follow a write
\* (or the construction) are taken.
CallList ==
    /\ rret.op # "List"
    /\ \E limit \in {1, 2}, offset \in ListOffsets :
        \E page \in List(limit, offset) :
            rret' = [op |-> "List", err |-> Nil, limit |-> limit,
                     offset |-> offset, page |-> page]
    /\ UNCHANGED <<repoVars, now, procVars, cacheVars, obsVars>>

InitList ==
    /\ NewMemoryUserRepository
    /\ now = 0
    /\ rret = [op |-> "none"]
    /\ NoCallers

NextList == ListCreate \/ CallList

SpecList == InitList /\ [][NextList]_vars

\* the stored records created after, and not before, the record u
Newer(u) == {x \in DOMAIN users : users[x].CreatedAt > u.CreatedAt}
NotOlder(u) == {x \in DOMAIN users : users[x].CreatedAt >= u.CreatedAt}

\* page holds the records at the positions offset .. offset + limit - 1 of
\* the stored records in an order of descending creation time: it has the
\* length of that range, its records are stored and distinct, and each
\* stands at a position its creation time allows
IsPage(page, limit, offset) ==
    /\ Len(page) = IF offset >= Count THEN 0
                   ELSE IF offset + limit > Count THEN Count - offset ELSE limit
    /\ \A i \in 1..Len(page) :
          /\ page[i].ID \in DOMAIN users
          /\ page[i] = users[page[i].ID]
          /\ Cardinality(Newer(page[i])) <= offset + i - 1
          /\ offset + i <= Cardinality(NotOlder(page[i]))
    /\ \A i, j \in 1..Len(page) : i < j =>
          /\ page[i].ID # page[j].ID
          /\ page[i].CreatedAt >= page[j].CreatedAt

(* C18: list(limit, offset) returns the records at the positions offset .. *)
(* offset + limit - 1 of all records sorted by creation time descending    *)
(* (with five accounts created at t1 < ... < t5, list(2, 0) is [t5, t4]    *)
(* and list(2, 2) is [t3, t2]); an offset at or beyond the number of       *)
(* records gives an empty result and no error.                             *)
C18_ListIsPageOfSorted ==
    rret.op = "List" =>
        /\ rret.err = Nil
        /\ IsPage(rret.page, rret.limit, rret.offset)
        /\ rret.offset >= Count => rret.page = <<>>

\* five accounts were created at five different times and list(2, 2) has
\* returned the third and the second of them
C18_Witness ==
    /\ rret.op = "List" /\ rret.limit = 2 /\ rret.offset = 2
    /\ Count = 5
    /\ \A x, y \in DOMAIN users : x # y => users[x].CreatedAt # users[y].CreatedAt
    /\ rret.page = <<users["3"], users["2"]>>

(* C19: the order of the list is a deterministic total order, records of   *)
(* equal creation time being ordered by identifier: two list calls with    *)
(* the same limit and offset and no write in between return the same       *)
(* sequence, and consecutive pages neither repeat nor skip a record.       *)
C19_ListDeterministic ==
    rret.op = "List" =>
        /\ \A again \in List(rret.limit, rret.offset) : again = rret.page
        /\ \A next \in List(rret.limit, rret.offset + rret.limit) :
              /\ \A i \in 1..Len(rret.page), j \in 1..Len(next) :
                    rret.page[i].ID # next[j].ID
              /\ \A x \in DOMAIN users :
                    Cardinality(NotOlder(users[x])) <= rret.offset + 2 * rret.limit
                    /\ Cardinality(Newer(users[x])) >= rret.offset
                    => \/ \E i \in 1..Len(rret.page) : rret.page[i].ID = x
                       \/ \E j \in 1..Len(next) : next[j].ID = x

----------------------------------------------------------------------------
(* SpecAlias: the records of the in-memory repository as objects.  The map *)
(* holds pointers: Create and Update store the pointer the caller passes,  *)
(* the reads return pointers to copies they make.  A holder keeps the      *)
(* pointer of its last call and writes through it.                         *)
(*   loc[Holder].from: the call the held pointer comes from                *)
(*   loc[Holder].ref:  the identifier under which the object pointed to is *)
(*                     stored, None if the map does not hold this object   *)
(*   loc[Holder].val:  the object's content                                *)

Holder == "holder"

\* the pointer a read returns for the record stored under id, if it returned
\* the stored pointer itself
StoredPointer(id) == [ref |-> Some(id), val |-> users[id]]

\* a key under which the map holds the record user
KeyOf(user) == CHOOSE id \in DOMAIN users : users[id] = user

\* userCopy := *user; return &userCopy
CopyPointer(id) == [ref |-> None, val |-> users[id]]

Reads == {"GetByID", "GetByEmail", "List"}

AliasEmails == {<<"a", "@", ".">>, <<"b", "@", ".">>}

Kept == loc[Holder]
Holding == "from" \in DOMAIN loc[Holder]

\* the holder has another pointer now; what it held before is dropped
Hold(from, ptr) ==
    loc' = [loc EXCEPT ![Holder] = [from |-> from, ref |-> ptr.ref, val |-> ptr.val,
                                    written |-> FALSE]]

\* Create with a new object; the map keeps the pointer passed
AliasCreate ==
    /\ nextID <= MaxID
    /\ \E e \in AliasEmails :
        LET r == Create(User("", Name0, e, Hash0, "user", 0, 0), now, now)
        IN  /\ users' = r.users
            /\ emails' = r.emails
            /\ nextID' = r.nextID
            /\ rret' = [op |-> "Create", err |-> r.err]
            /\ IF r.err = Nil THEN Hold("Create", [ref |-> Some(r.user.ID), val |-> r.user])
               ELSE Hold("Create", [ref |-> None, val |-> r.user])
    /\ UNCHANGED <<now, pc, req, ret, cacheVars, obsVars>>

\* Update with the object held; the map keeps the pointer passed, and the
\* object is not stored under another identifier any more
AliasUpdate ==
    /\ Holding
    /\ \E id \in DOMAIN users :
        /\ Kept.ref # None => Kept.ref = Some(id)
        /\ LET r == Update(id, Kept.val, now)
           IN  /\ users' = r.users
               /\ emails' = r.emails
               /\ rret' = [op |-> "Update", err |-> r.err]
               /\ IF r.err = Nil THEN Hold("Update", [ref |-> Some(id), val |-> r.user])
                  ELSE UNCHANGED loc
    /\ UNCHANGED <<nextID, now, pc, req, ret, cacheVars, obsVars>>

\* Delete; an object held that was stored under id is stored no more
AliasDelete ==
    /\ \E id \in DOMAIN users :
        LET r == Delete(id)
        IN  /\ users' = r.users
            /\ emails' = r.emails
            /\ rret' = [op |-> "Delete", err |-> r.err]
            /\ IF Holding /\ Kept.ref = Some(id)
               THEN loc' = [loc EXCEPT ![Holder].ref = None]
               ELSE UNCHANGED loc
    /\ UNCHANGED <<nextID, now, pc, req, ret, cacheVars, obsVars>>

\* GetByID, GetByEmail and List, each returning a pointer to a copy (of
\* List's page the holder keeps the first record)
AliasGetByID ==
    /\ \E id \in DOMAIN users :
        /\ GetByID(id).err = Nil
        /\ Hold("GetByID", CopyPointer(id))
    /\ rret' = [op |-> "GetByID", err |-> Nil]
    /\ UNCHANGED <<repoVars, now, pc, req, ret, cacheVars, obsVars>>

AliasGetByEmail ==
    /\ \E e \in DOMAIN emails :
        /\ GetByEmail(e).err = Nil
        /\ Hold("GetByEmail", CopyPointer(emails[e]))
    /\ rret' = [op |-> "GetByEmail", err |-> Nil]
    /\ UNCHANGED <<repoVars, now, pc, req, ret, cacheVars, obsVars>>

AliasList ==
    /\ \E page \in List(MaxID, 0) :
        /\ page # <<>>
        /\ Hold("List", CopyPointer(KeyOf(page[1])))
    /\ rret' = [op |-> "List", err |-> Nil]
    /\ UNCHANGED <<repoVars, now, pc, req, ret, cacheVars, obsVars>>

\* what the holder writes into the object it holds
Rewrite(u, f, v) ==
    IF f = "Name" THEN [u EXCEPT !.Name = v] ELSE [u EXCEPT !.Email = v]

\* the holder writes a field of the object it holds; if the map holds this
\* object, the stored record is the one written
WriteHeld ==
    /\ Holding
    /\ \E w \in {<<"Name", Name1>>, <<"Email", <<"x", "@", ".">>>>} :
        /\ Rewrite(Kept.val, w[1], w[2]) # Kept.val
        /\ loc' = [loc EXCEPT ![Holder].val = Rewrite(@, w[1], w[2]),
                              ![Holder].written = TRUE]
        /\ users' = IF Kept.ref # None
                    THEN [users EXCEPT ![Kept.ref[1]] = Rewrite(@, w[1], w[2])]
                    ELSE users
    /\ rret' = [op |-> "Write"]
    /\ UNCHANGED <<emails, nextID, now, pc, req, ret, cacheVars, obsVars>>

InitAlias ==
    /\ NewMemoryUserRepository
    /\ now = 0
    /\ rret = [op |-> "none"]
    /\ NoCache
    /\ InitCallers({Holder})

NextAlias ==
    \/ AliasCreate
    \/ AliasUpdate
    \/ AliasDelete
    \/ AliasGetByID
    \/ AliasGetByEmail
    \/ AliasList
    \/ WriteHeld

SpecAlias == InitAlias /\ [][NextAlias]_vars

(* C20: the records getByID, getByEmail and list of the in-memory          *)
(* repository return are copies: writing to a returned record changes      *)
(* neither what a later read of the repository returns nor the email       *)
(* index.                                                                  *)
C20_ReadsReturnCopies ==
    [][(Holding /\ Kept.from \in Reads /\ rret'.op = "Write")
           => (users' = users /\ emails' = emails)]_vars

\* a record a read returned has been written to, and the repository still
\* returns the record as it was
C20_Witness ==
    /\ Holding
    /\ Kept.from \in Reads
    /\ Kept.written
    /\ rret.op = "Write"
    /\ \E id \in DOMAIN users : users[id].ID = id /\ users[id] # Kept.val
                                /\ emails[users[id].Email] = id

----------------------------------------------------------------------------
(* SpecStore: create, update and delete calls on the in-memory repository, *)
(* the update with records whose id, created-at and updated-at the caller  *)
(* has set as it liked.  rret notes the last call: its arguments, its      *)
(* error and (was) the record stored under its id before the call.         *)

StoreEmails == {<<"a", "@", ".">>, <<"b", "@", ".">>}
StoreIDs == {Itoa(n) : n \in 1..MaxID + 1}

\* a created-at or updated-at no reading of the clock gives
Elsewhen == MaxClock + 8

\* the record stored under id, if any
Stored(id) == IF id \in DOMAIN users THEN Some(users[id]) ELSE None

\* Create with a record without identifier, as the business service passes it
StoreCreate ==
    /\ nextID <= MaxID
    /\ \E e \in StoreEmails :
        LET user == User("", Name0, e, Hash0, "user", 0, 0)
            r == Create(user, now, now)
        IN  /\ users' = r.users
            /\ emails' = r.emails
            /\ nextID' = r.nextID
            /\ rret' = [op |-> "Create", err |-> r.err, id |-> r.user.ID, user |-> user,
                        was |-> None]
    /\ UNCHANGED <<now, procVars, cacheVars, obsVars>>

\* the records passed to Update
StoreRecords ==
    {User(i, Name1, e, Hash0, "user", t, t) :
        i \in {"", "2"}, e \in StoreEmails \cup {<<"c", "@", ".">>}, t \in {0, Elsewhen}}

StoreUpdate ==
    /\ \E id \in StoreIDs, user \in StoreRecords :
        LET r == Update(id, user, now)
        IN  /\ users' = r.users
            /\ emails' = r.emails
            /\ rret' = [op |-> "Update", err |-> r.err, id |-> id, user |-> user,
                        was |-> Stored(id)]
    /\ UNCHANGED <<nextID, now, procVars, cacheVars, obsVars>>

StoreDelete ==
    /\ \E id \in StoreIDs :
        LET r == Delete(id)
        IN  /\ users' = r.users
            /\ emails' = r.emails
            /\ rret' = [op |-> "Delete", err |-> r.err, id |-> id, user |-> None,
                        was |-> Stored(id)]
    /\ UNCHANGED <<nextID, now, procVars, cacheVars, obsVars>>

InitStore ==
    /\ NewMemoryUserRepository
    /\ now = 0
    /\ rret = [op |-> "none"]
    /\ NoCallers

NextStore == StoreCreate \/ StoreUpdate \/ StoreDelete \/ Tick

SpecStore == InitStore /\ [][NextStore]_vars

\* the step is a call of the operation op (the clock stands still in a call)
StoreStep(op) == rret'.op = op /\ now' = now

\* every record but the one under id is left as it was
OthersUnchanged(id) ==
    /\ DOMAIN users' \ {id} = DOMAIN users \ {id}
    /\ \A x \in DOMAIN users \ {id} : users'[x] = users[x]

(* C21: a successful update never changes the identifier or the created-at *)
(* of an account and sets its updated-at to the time of the update,        *)
(* whatever id, created-at or updated-at the caller put into the record    *)
(* it passed.                                                              *)
C21_UpdateKeepsIdentity ==
    [][(StoreStep("Update") /\ rret'.err = Nil) =>
          /\ rret'.id \in DOMAIN users /\ rret'.id \in DOMAIN users'
          /\ users'[rret'.id].ID = rret'.id
          /\ users'[rret'.id].CreatedAt = users[rret'.id].CreatedAt
          /\ users'[rret'.id].UpdatedAt = now
          /\ OthersUnchanged(rret'.id)]_vars

\* an update with a record that carried another id and another created-at
\* has succeeded, later than the account was created, and the account has
\* its id, its created-at and the time of the update as updated-at
C21_Witness ==
    /\ rret.op = "Update" /\ rret.err = Nil
    /\ rret.user.ID = "2" /\ rret.id = "1"
    /\ rret.user.CreatedAt = Elsewhen
    /\ users["1"].ID = "1"
    /\ users["1"].CreatedAt = rret.was[1].CreatedAt
    /\ users["1"].CreatedAt < now
    /\ users["1"].UpdatedAt = now

(* C22: update fails with not-found when the id is absent and with         *)
(* already-exists when the new email belongs to a different account, and   *)
(* then leaves the records and the email index unchanged; an update that   *)
(* changes the email to a free one moves the index entry: the old email    *)
(* resolves no more and is free for another account, the new email         *)
(* resolves to this account.                                               *)
C22_UpdateErrorsAndIndex ==
    [][StoreStep("Update") =>
          LET id == rret'.id
              new == rret'.user.Email
          IN  /\ id \notin DOMAIN users => rret'.err = ErrUserNotFound
              /\ (/\ id \in DOMAIN users
                  /\ new \in DOMAIN emails
                  /\ emails[new] # id) => rret'.err = ErrUserAlreadyExists
              /\ rret'.err # Nil => (users' = users /\ emails' = emails)
              /\ (rret'.err = Nil /\ new # users[id].Email) =>
                    /\ users[id].Email \notin DOMAIN emails'
                    /\ new \in DOMAIN emails' /\ emails'[new] = id
                    /\ users'[id].Email = new
                    /\ \A e \in DOMAIN emails \ {users[id].Email, new} :
                          e \in DOMAIN emails' /\ emails'[e] = emails[e]]_vars

\* an update has moved an account to a free email; the old email resolves
\* no more
C22_Witness ==
    /\ rret.op = "Update" /\ rret.err = Nil
    /\ rret.was # None
    /\ rret.was[1].Email # rret.user.Email
    /\ rret.was[1].Email \notin DOMAIN emails
    /\ emails[rret.user.Email] = rret.id
    /\ Cardinality(DOMAIN users) > 1

\* an update to the email of another account has failed
C22_WitnessTaken ==
    /\ rret.op = "Update" /\ rret.err = ErrUserAlreadyExists
    /\ rret.was # None
    /\ emails[rret.user.Email] # rret.id

(* C23: delete fails with not-found when the id is absent and then leaves  *)
(* the state unchanged; otherwise it removes the record and its entry in   *)
(* the email index: afterwards getByID(id) and getByEmail(email) return    *)
(* not-found, count is one less, and the email can be registered again.    *)
C23_DeleteRemovesBoth ==
    [][StoreStep("Delete") =>
          LET id == rret'.id
          IN  /\ id \notin DOMAIN users =>
                    /\ rret'.err = ErrUserNotFound
                    /\ users' = users /\ emails' = emails
              /\ id \in DOMAIN users =>
                    /\ rret'.err = Nil
                    /\ id \notin DOMAIN users'
                    /\ users[id].Email \notin DOMAIN emails'
                    /\ Cardinality(DOMAIN users') = Cardinality(DOMAIN users) - 1
                    /\ OthersUnchanged(id)
                    /\ \A e \in DOMAIN emails \ {users[id].Email} :
                          e \in DOMAIN emails' /\ emails'[e] = emails[e]]_vars

\* an account was deleted and neither its id nor its email resolves, while
\* another account is still stored
C23_Witness ==
    /\ rret.op = "Delete" /\ rret.err = Nil
    /\ rret.was # None
    /\ GetByID(rret.id).err = ErrUserNotFound
    /\ GetByEmail(rret.was[1].Email).err = ErrUserNotFound
    /\ Count = 1

----------------------------------------------------------------------------
\* Validation at the boundary of the business service (C24)

\* what the validation of the operation says about the request r
Validation(r) ==
    IF r.op = "Register" THEN validateCreateUserRequest(r)
    ELSE IF r.op = "Login" THEN validateLoginRequest(r)
    ELSE IF r.op = "UpdateProfile" THEN validateUpdateUserRequest(r)
    ELSE Nil

(* C24: when the input of Register, Login or UpdateProfile fails           *)
(* validation, the operation returns validation-failed without having      *)
(* made a repository call; its result therefore is validation-failed       *)
(* whatever the repository holds.                                          *)
C24_ValidationBeforeRepository ==
    \A p \in DOMAIN pc :
        (/\ pc[p] = "done" /\ req[p].via = "svc"
         /\ req[p].op \in {"Register", "Login", "UpdateProfile"}
         /\ Validation(req[p]) # Nil)
        => ret[p] = Failure(ErrValidationFailed)

----------------------------------------------------------------------------
\* Roles given to Register and UpdateProfile (C25)

\* the roles of the account model, and the role inputs a caller can send
Roles == {"user", "admin"}
RoleInputs == Roles \cup {"", "root"}

RoleRequests ==
    {[op |-> "Register", via |-> "svc", Name |-> Name0, Email |-> e,
      Password |-> Password0, Role |-> r] :
        e \in {<<"a", "@", ".">>, <<"b", "@", ".">>}, r \in RoleInputs}
    \cup {[op |-> "UpdateProfile", via |-> "svc", id |-> i, Name |-> None,
           Email |-> v[1], Role |-> v[2]] :
             i \in SvcIDs,
             v \in ({None} \X ({None} \cup {Some(r) : r \in RoleInputs}))
                   \cup {<<Some(<<"c", "@", ".">>), Some("admin")>>}}

\* the clock only moves with a registration: no role depends on the time
InitRole == InitSvc

NextRole ==
    \/ Call(1, RoleRequests)
    \/ RegisterCheck(1)
    \/ RegisterCreate(1)
    \/ UpdateProfileGet(1)
    \/ UpdateProfileEmail(1)
    \/ UpdateProfileUpdate(1)

SpecRole == InitRole /\ [][NextRole]_vars

(* C25: after any sequence of Register and UpdateProfile calls with        *)
(* arbitrary role inputs every stored account's role is standard ("user")  *)
(* or admin, and a Register with no role supplied stores the role          *)
(* standard.                                                               *)
C25_RolesAreEnum ==
    /\ \A id \in DOMAIN users : users[id].Role \in Roles
    /\ \A p \in DOMAIN pc :
        (/\ pc[p] = "done" /\ req[p].op = "Register" /\ req[p].Role = ""
         /\ ret[p].err = Nil)
        => /\ ret[p].val.ID \in DOMAIN users
           /\ users[ret[p].val.ID].Role = "user"

----------------------------------------------------------------------------
(* The MongoDB repository: users is the collection keyed by _id, emails    *)
(* the unique index on the email field.  Two callers update the profile    *)
(* of one account, one its name and the other its email (C26).             *)

\* the unique index of a collection
EmailIndex(docs) ==
    [e \in {docs[i].Email : i \in DOMAIN docs} |->
        CHOOSE i \in DOMAIN docs : docs[i].Email = e]

\* mongoUserRepository.Update: $set of name, email, role and updated_at, and
\* of the password when the record has one; t is the reading of time.Now()
MongoUpdate(id, user, t) ==
    LET passed == [user EXCEPT !.UpdatedAt = t]
    IN  IF id \notin DOMAIN users
        THEN [err |-> ErrUserNotFound, user |-> passed, users |-> users, emails |-> emails]
        ELSE IF \E i \in DOMAIN users \ {id} : users[i].Email = user.Email
        THEN [err |-> ErrUserAlreadyExists, user |-> passed,
              users |-> users, emails |-> emails]
        ELSE LET doc == [users[id] EXCEPT
                            !.Name = user.Name, !.Email = user.Email,
                            !.Role = user.Role, !.UpdatedAt = t,
                            !.Password = IF user.Password # <<>> THEN user.Password ELSE @]
             IN  [err |-> Nil, user |-> passed,
                  users |-> MapSet(users, id, doc),
                  emails |-> EmailIndex(MapSet(users, id, doc))]

\* UpdateProfile over the MongoDB repository: the repository update and the
\* return (lines 179-185)
MongoUpdateProfileUpdate(p) ==
    /\ pc[p] = "UpdateProfileUpdate"
    /\ LET u == MongoUpdate(req[p].id, loc[p], now)
       IN  /\ users' = u.users
           /\ emails' = u.emails
           /\ IF u.err # Nil THEN Return(p, Failure(u.err))
              ELSE Return(p, Result(Nil, ToResponse(u.user)))
    /\ UNCHANGED <<nextID, now, rret, req>>

Namer == "namer"
Mailer == "mailer"

NamerRequests ==
    {[op |-> "UpdateProfile", via |-> "svc", id |-> "1", Name |-> Some(n),
      Email |-> None, Role |-> None] : n \in {<<"B", "o">>, <<"C", "y">>}}
MailerRequests ==
    {[op |-> "UpdateProfile", via |-> "svc", id |-> "1", Name |-> None,
      Email |-> Some(e), Role |-> None] :
        e \in {<<"b", "@", ".">>, <<"c", "@", ".">>}}

\* one account is stored, as a registration at time 0 left it
InitMongo ==
    /\ users = MapSet(EmptyMap, "1",
                      User("1", Name0, <<"a", "@", ".">>, Hash0, "user", 0, 0))
    /\ emails = EmailIndex(users)
    /\ nextID = 2
    /\ now = 0
    /\ rret = [op |-> "none"]
    /\ NoCache
    /\ InitCallers({Namer, Mailer})

NextMongo ==
    \/ Call(Namer, NamerRequests)
    \/ Call(Mailer, MailerRequests)
    \/ \E p \in {Namer, Mailer} :
        \/ UpdateProfileGet(p)
        \/ UpdateProfileEmail(p)
        \/ MongoUpdateProfileUpdate(p)
    \/ Tick

SpecMongo == InitMongo /\ [][NextMongo]_vars

(* C26: an update in the persistent-store path writes only the fields the  *)
(* caller supplied: when an update of the name and an update of the email  *)
(* of the same account have both succeeded, in either order and under any  *)
(* interleaving, the stored record has the name of the one and the email   *)
(* of the other.                                                           *)
C26_DisjointUpdatesBothApply ==
    (/\ pc[Namer] = "done" /\ ret[Namer].err = Nil
     /\ pc[Mailer] = "done" /\ ret[Mailer].err = Nil)
    => /\ users["1"].Name = TrimSpace(req[Namer].Name[1])
       /\ users["1"].Email = Normalize(req[Mailer].Email[1])

----------------------------------------------------------------------------
(* Registration followed by login (C27): one caller registers accounts,    *)
(* another logs in.                                                        *)

Registrar == "registrar"
Visitor == "visitor"

RegistrarRequests ==
    {[op |-> "Register", via |-> "svc", Name |-> Name0, Email |-> e,
      Password |-> Password0, Role |-> r] :
        e \in SpellingsA \cup {<<"B", "@", ".">>}, r \in {"", "admin"}}
VisitorRequests ==
    {[op |-> "Login", via |-> "svc", Email |-> e, Password |-> w] :
        e \in SpellingsA \cup {<<"b", "@", ".">>, <<"B", "@", ".">>},
        w \in {Password0, WrongPassword}}

InitLogin ==
    /\ NewMemoryUserRepository
    /\ now = 0
    /\ rret = [op |-> "none"]
    /\ NoCache
    /\ InitCallers({Registrar, Visitor})

NextLogin ==
    \/ Call(Registrar, RegistrarRequests)
    \/ Call(Visitor, VisitorRequests)
    \/ RegisterCheck(Registrar)
    \/ RegisterCreate(Registrar)
    \/ Login(Visitor)
    \/ Tick

SpecLogin == InitLogin /\ [][NextLogin]_vars

\* the visitor has finished a login that started after the registrar's
\* registration had succeeded, with a spelling of its email and its password
LoggedInAfterRegister ==
    /\ pc[Registrar] = "done" /\ ret[Registrar].err = Nil
    /\ pc[Visitor] = "done"
    /\ ret[Registrar].val.ID \in cur[Visitor].holders
    /\ Variant(req[Visitor].Email, req[Registrar].Email)
    /\ req[Visitor].Password = req[Registrar].Password

(* C27: after a successful registration with email E and password P, a     *)
(* following Login with any case variant of E and with P succeeds and      *)
(* returns a token that validates, whose subject is the id of the account  *)
(* the registration created and whose role is the role supplied, standard  *)
(* ("user") when none was.                                                 *)
C27_LoginAfterRegister ==
    LoggedInAfterRegister
    => /\ ret[Visitor].err = Nil
       /\ LET token == ret[Visitor].val.token
              v == ValidateToken(token, token.Iat)
          IN  /\ v.err = Nil
              /\ v.claims[1].UserID = ret[Registrar].val.ID
              /\ v.claims[1].Role = IF req[Registrar].Role = "" THEN "user"
                                    ELSE req[Registrar].Role
              /\ ret[Visitor].val.user.ID = ret[Registrar].val.ID

C27_Witness ==
    /\ LoggedInAfterRegister
    /\ req[Visitor].Email # req[Registrar].Email
    /\ req[Visitor].Email # Normalize(req[Registrar].Email)
    /\ req[Registrar].Role = ""
    /\ ret[Visitor].err = Nil
    /\ ret[Visitor].val.token.UserID = ret[Registrar].val.ID
    /\ ret[Visitor].val.token.Role = "user"

----------------------------------------------------------------------------
(* UserHandler: the HTTP handlers in front of the business service.  The   *)
(* service is the interface the handler is given: a call returns any of    *)
(* the outcomes below (C28, C30).                                          *)

\* an error value: a *domain.DomainError, or an error of another type
DomainError(code, message) == [domain |-> TRUE, Code |-> code, Message |-> message]
OtherError(text) == [domain |-> FALSE, Code |-> "", Message |-> text]
NoError == [domain |-> FALSE, Code |-> Nil, Message |-> ""]

\* what writeErrorResponse and writeSuccessResponse put on the wire
Response(statusCode, message, code) ==
    [status |-> statusCode, message |-> message, code |-> code]

\* a handleServiceError that passes the text of an unclassified error on
handleServiceErrorLeak(err) ==
    IF err.domain /\ err.Code \in {ErrUserNotFound, ErrUserAlreadyExists,
                                   ErrInvalidCredentials, ErrInvalidToken, Unauthorized,
                                   Forbidden, ErrValidationFailed}
    THEN Response(CASE err.Code = ErrUserNotFound -> 404
                    [] err.Code = ErrUserAlreadyExists -> 409
                    [] err.Code = Forbidden -> 403
                    [] err.Code = ErrValidationFailed -> 400
                    [] OTHER -> 401, err.Message, err.Code)
    ELSE Response(500, err.Message, "INTERNAL_ERROR")

\* UserHandler.handleServiceError
handleServiceError(err) ==
    IF err.domain
    THEN CASE err.Code = ErrUserNotFound -> Response(404, err.Message, err.Code)
           [] err.Code = ErrUserAlreadyExists -> Response(409, err.Message, err.Code)
           [] err.Code = ErrInvalidCredentials -> Response(401, err.Message, err.Code)
           [] err.Code = ErrInvalidToken -> Response(401, err.Message, err.Code)
           [] err.Code = Unauthorized -> Response(401, err.Message, err.Code)
           [] err.Code = Forbidden -> Response(403, err.Message, err.Code)
           [] err.Code = ErrValidationFailed -> Response(400, err.Message, err.Code)
           [] OTHER -> Response(500, "Internal server error", "INTERNAL_ERROR")
    ELSE Response(500, "Internal server error", "INTERNAL_ERROR")

\* the handlers that decode a JSON body, and those that take an id from the path
BodyHandlers == {"Register", "Login", "UpdateProfile"}
PathHandlers == {"GetUserByID", "DeleteUser"}
UserHandlers == BodyHandlers \cup PathHandlers \cup SubjectHandlers \cup {"GetUsers"}

\* A handler up to its call of the service: the profile handlers answer 401
\* without a user id in the context, a body that does not decode and an empty
\* path id are answered with 400.
UserHandlerEntry(p) ==
    /\ pc[p] = "UserHandler"
    /\ UNCHANGED <<repoVars, now, rret, req, cacheVars, marks>>
    /\ LET h == req[p].handler
       IN  IF h \in SubjectHandlers /\ getUserIDFromContext(req[p].ctx) = ""
           THEN Finish(p, Response(401, "Unauthorized", UserIDNotFound), cur[p])
           ELSE IF h \in BodyHandlers /\ ~req[p].wellFormed
           THEN Finish(p, Response(400, "Invalid request body", "unexpected EOF"), cur[p])
           ELSE IF h \in PathHandlers /\ ~req[p].wellFormed
           THEN Finish(p, Response(400, "Missing user ID", "User ID is required"), cur[p])
           ELSE Jump(p, "UserService", NoLoc, cur[p])

\* the errors a service call can return: the domain errors, validation errors
\* with their own message, a domain error with a code the handler does not
\* know, and errors that are not domain errors (a driver error, a wrapped
\* domain error)
ServiceErrors ==
    {DomainError(ErrUserNotFound, "User not found"),
     DomainError(ErrUserAlreadyExists, "User with this email already exists"),
     DomainError(ErrInvalidCredentials, "Invalid email or password"),
     DomainError(ErrInvalidToken, "Invalid or expired token"),
     DomainError(Unauthorized, "Unauthorized access"),
     DomainError(Forbidden, "Access forbidden"),
     DomainError(ErrValidationFailed, "Validation failed"),
     DomainError(ErrValidationFailed, "Name is required"),
     DomainError("RATE_LIMITED", "Too many requests"),
     DomainError("", "Validation failed"),
     OtherError("server selection error: no reachable servers"),
     OtherError("context deadline exceeded"),
     OtherError("lookup: User not found")}

\* the call of the service and the response to its outcome
UserHandlerService(p) ==
    /\ pc[p] = "UserService"
    /\ UNCHANGED <<repoVars, now, rret, req, cacheVars, marks>>
    /\ \E err \in ServiceErrors \cup {NoError} :
        LET notes == [cur[p] EXCEPT !.svc = Some(err)]
        IN  IF err # NoError THEN Finish(p, handleServiceError(err), notes)
            ELSE Finish(p, Response(IF req[p].handler = "Register" THEN 201 ELSE 200,
                                    "success", ""), notes)

\* request contexts: empty, with the user id under the string key the
\* handlers read, with the user id under the middleware's typed key
HandlerContexts ==
    {NoContext, WithValue(NoContext, stringKey("user_id"), "1"),
     WithValue(NoContext, userIDKey, "1")}

HandlerRequests ==
    {[op |-> "UserHandler", via |-> "handler", handler |-> h, ctx |-> c, wellFormed |-> b] :
        h \in UserHandlers, c \in HandlerContexts, b \in BOOLEAN}

InitHandler ==
    /\ NewMemoryUserRepository
    /\ now = 0
    /\ rret = [op |-> "none"]
    /\ NoCache
    /\ InitCallers({1})

NextHandler ==
    \/ Call(1, HandlerRequests)
    \/ UserHandlerEntry(1)
    \/ UserHandlerService(1)

SpecHandler == InitHandler /\ [][NextHandler]_vars

\* the status the error taxonomy gives each code the handler knows
KnownCodes ==
    {ErrUserNotFound, ErrUserAlreadyExists, ErrInvalidCredentials, ErrInvalidToken,
     Unauthorized, Forbidden, ErrValidationFailed}
StatusOf(code) ==
    IF code = ErrUserNotFound THEN 404
    ELSE IF code = ErrUserAlreadyExists THEN 409
    ELSE IF code = Forbidden THEN 403
    ELSE IF code = ErrValidationFailed THEN 400
    ELSE 401

\* the service call of caller p has returned an error
ServiceFailed(p) ==
    /\ pc[p] = "done" /\ req[p].op = "UserHandler"
    /\ cur[p].svc # None /\ cur[p].svc[1] # NoError

(* C28: the HTTP handler maps every service error to a fixed status and    *)
(* code: not-found 404, already-exists 409, invalid-credentials,           *)
(* invalid-token and unauthorized 401, forbidden 403, validation-failed    *)
(* 400, each with the code of the error; any other error (a domain error   *)
(* with another code, an error of another type) gets 500, code             *)
(* INTERNAL_ERROR and one generic message, in which nothing of the         *)
(* original error is left.                                                 *)
C28_ErrorMapping ==
    \A p \in DOMAIN pc :
        ServiceFailed(p) =>
            LET err == cur[p].svc[1]
            IN  IF err.domain /\ err.Code \in KnownCodes
                THEN /\ ret[p].status = StatusOf(err.Code)
                     /\ ret[p].code = err.Code
                ELSE /\ ret[p] = Response(500, "Internal server error", "INTERNAL_ERROR")
                     /\ ret[p].message # err.Message

C28_Witness ==
    /\ ServiceFailed(1)
    /\ ~cur[1].svc[1].domain
    /\ cur[1].svc[1].Message = "lookup: User not found"
    /\ ret[1].status = 500

C28_WitnessKnown ==
    /\ ServiceFailed(1)
    /\ cur[1].svc[1] = DomainError(ErrUserAlreadyExists, "User with this email already exists")
    /\ ret[1].status = 409

\* the request of caller p is for a profile handler and its context has no
\* value under the key the handlers read
NoUserID(p) ==
    /\ req[p].op = "UserHandler"
    /\ req[p].handler \in SubjectHandlers
    /\ ContextValue(req[p].ctx, stringKey("user_id")) = None

(* C30: when the request context carries no user id, the GetProfile,       *)
(* UpdateProfile and RefreshToken handlers answer unauthorized (401) and   *)
(* never call the business service.                                        *)
C30_NoUserIDNoServiceCall ==
    \A p \in DOMAIN pc :
        NoUserID(p) =>
            /\ pc[p] # "UserService"
            /\ pc[p] = "done" => /\ ret[p].status = 401
                                 /\ ret[p].message = "Unauthorized"
                                 /\ cur[p].svc = None

C30_Witness ==
    /\ NoUserID(1) /\ pc[1] = "done"
    /\ req[1].handler = "UpdateProfile" /\ ~req[1].wellFormed
    /\ req[1].ctx = NoContext
    /\ ret[1].status = 401

----------------------------------------------------------------------------
\* Failed logins (C29), under SpecLogin

\* the visitor's Login runs now, for an email no stored account has
UnknownEmail ==
    /\ pc[Visitor] = "Login" /\ validateLoginRequest(req[Visitor]) = Nil
    /\ \A i \in DOMAIN users : users[i].Email # Normalize(req[Visitor].Email)

\* the visitor's Login runs now, for the email of a stored account and with a
\* password that is not the one its hash was made from
WrongPasswordGiven ==
    /\ pc[Visitor] = "Login" /\ validateLoginRequest(req[Visitor]) = Nil
    /\ \E i \in DOMAIN users :
        /\ users[i].Email = Normalize(req[Visitor].Email)
        /\ users[i].Password # hashPassword(req[Visitor].Password)

(* C29: Login with an email no account has and Login with an existing      *)
(* email but a wrong password return the same invalid-credentials error,   *)
(* and neither issues a token nor changes repository state.                *)
C29_FailedLoginsAlike ==
    [][((UnknownEmail \/ WrongPasswordGiven) /\ pc'[Visitor] = "done")
       => /\ ret'[Visitor] = Failure(ErrInvalidCredentials)
          /\ ret'[Visitor].val = None
          /\ users' = users /\ emails' = emails /\ nextID' = nextID]_vars

C29_Witness ==
    /\ pc[Visitor] = "done"
    /\ cur[Visitor].holders # {}
    /\ req[Visitor].Password = WrongPassword
    /\ ret[Visitor] = Failure(ErrInvalidCredentials)

C29_WitnessUnknown ==
    /\ pc[Visitor] = "done"
    /\ users # EmptyMap
    /\ \A i \in DOMAIN users : users[i].Email # Normalize(req[Visitor].Email)
    /\ req[Visitor].Password = Password0
    /\ ret[Visitor] = Failure(ErrInvalidCredentials)

----------------------------------------------------------------------------
\* The order of service and cache calls in the decorator (C31), under SpecSeq

CacheLabels == {"CachedInvalidate", "CachedSet"}

\* a step of the caller (warming and expiry leave its position alone)
CallerStep == pc'[1] # pc[1]

\* the entry of id is removed, or the call failed and was noted
DeleteCall(id) ==
    \/ cache' = MapDel(cache, userCacheKey(id))
    \/ cache' = cache /\ "delete" \in cur'[1].fails

\* the entry of id is set to the projection with the decorator's time to
\* live, or the call failed and was noted
SetCall(id, user) ==
    \/ cache' = MapSet(cache, userCacheKey(id), [val |-> Marshal(user), ttl |-> cacheTTL])
    \/ cache' = cache /\ "set" \in cur'[1].fails

C31_WitnessError ==
    /\ pc[1] = "done" /\ req[1].op \in {"UpdateProfile", "DeleteUser", "Register"}
    /\ ret[1].err # Nil
    /\ cache # EmptyMap

----------------------------------------------------------------------------
(* SpecWindow: one UpdateProfile of a stored account through the           *)
(* decorator, and a reader whose cache lookups happen between the update's *)
(* invalidate step and its repopulate step (C32).                          *)

WindowID == "1"
WindowUser == User(WindowID, Name0, <<"a", "@", ".">>, Hash0, "user", 0, 0)

WindowWriterRequests ==
    {[op |-> "UpdateProfile", via |-> "cached", id |-> WindowID, Name |-> Some(n),
      Email |-> None, Role |-> r] : n \in {Name2}, r \in {None, Some("admin")}}
WindowReaderRequests ==
    {[op |-> o, via |-> "cached", id |-> WindowID] : o \in {"GetProfile", "GetUserByID"}}

\* the account was registered at time 0; the cache is empty or holds its
\* projection
InitWindow ==
    /\ users = MapSet(EmptyMap, WindowID, WindowUser)
    /\ emails = MapSet(EmptyMap, WindowUser.Email, WindowID)
    /\ nextID = 2
    /\ now = 0
    /\ rret = [op |-> "none"]
    /\ warm = <<>>
    /\ marks = NoMarks
    /\ InitCallers({Writer, Reader})
    /\ cache \in {EmptyMap,
                  MapSet(EmptyMap, userCacheKey(WindowID),
                         [val |-> Marshal(ToResponse(WindowUser)), ttl |-> cacheTTL])}

\* the update has invalidated (or tried to) and not yet repopulated
InWindow == pc[Writer] = "CachedSet"

NextWindow ==
    \/ pc[Writer] = "idle" /\ Call(Writer, WindowWriterRequests)
    \/ Call(Reader, WindowReaderRequests)
    \/ UpdateProfileGet(Writer)
    \/ UpdateProfileUpdate(Writer)
    \/ CachedUpdateInvalidate(Writer)
    \/ CachedUpdateSet(Writer)
    \/ InWindow /\ CachedGet(Reader)
    \/ GetProfile(Reader)
    \/ CachedLookupSet(Reader)
    \/ \E key \in DOMAIN cache : Expire(key)
    \/ Tick

SpecWindow == InitWindow /\ [][NextWindow]_vars

\* the update and a lookup made in its window have both returned, the update
\* with success
WindowRaceOver ==
    /\ pc[Writer] = "done" /\ ret[Writer].err = Nil
    /\ pc[Reader] = "done" /\ req[Reader].op \in {"GetProfile", "GetUserByID"}

\* the lookup missed, read the account from the service and cached it
ReaderRecached ==
    /\ ~cur[Reader].hit /\ cur[Reader].svc # None
    /\ "set" \notin cur[Reader].fails

NextStale ==
    \/ pc[Writer] = "idle" /\ Call(Writer, WindowWriterRequests)
    \/ Call(Reader, WindowReaderRequests)
    \/ UpdateProfileGet(Writer)
    \/ UpdateProfileUpdate(Writer)
    \/ CachedUpdateInvalidate(Writer)
    \/ CachedUpdateSet(Writer)
    \/ CachedGet(Reader)
    \/ GetProfile(Reader)
    \/ CachedLookupSet(Reader)
    \/ \E key \in DOMAIN cache : Expire(key)
    \/ Tick

SpecStale == InitWindow /\ [][NextStale]_vars

C32_WitnessEarlyReader ==
    /\ WindowRaceOver /\ ReaderRecached
    /\ cur[Writer].fails = {}
    /\ cur[Writer].pre # Some(ret[Writer].val)
    /\ userCacheKey(WindowID) \in DOMAIN cache
    /\ Unmarshal(cache[userCacheKey(WindowID)].val) = cur[Writer].pre[1]

----------------------------------------------------------------------------
(* SpecTTL: the server loads its configuration, REDIS_TTL among it, and    *)
(* then serves one client through the decorator (C33).                     *)

\* time.ParseDuration on the values the environment is given here; a value
\* that does not parse gives err
ParseDuration(value) ==
    IF value = "0s" THEN [err |-> Nil, d |-> 0]
    ELSE IF value = "1s" THEN [err |-> Nil, d |-> 1]
    ELSE [err |-> "time: invalid duration", d |-> 0]

\* getDurationEnv(key, defaultValue), for the value the environment has
getDurationEnv(value, defaultValue) ==
    IF value # "" /\ ParseDuration(value).err = Nil
    THEN ParseDuration(value).d ELSE defaultValue

\* config.Load, as far as the cache is concerned
Load ==
    /\ pc[Main] = "Load"
    /\ Jump(Main, "serving", [TTL |-> getDurationEnv(req[Main].REDIS_TTL, RedisTTL)],
            cur[Main])
    /\ UNCHANGED <<repoVars, now, rret, req, cacheVars, marks>>

EnvTTL == {"", "0s", "1s", "1h30"}

TTLRequests ==
    {[op |-> "Register", via |-> "cached", Name |-> Name0,
      Email |-> <<"a", "@", ".">>, Password |-> Password0, Role |-> ""]}
    \cup {[op |-> "UpdateProfile", via |-> "cached", id |-> "1", Name |-> Some(Name2),
           Email |-> None, Role |-> None]}
    \cup {[op |-> o, via |-> "cached", id |-> "1"] : o \in {"GetProfile", "DeleteUser"}}

InitTTL ==
    /\ NewMemoryUserRepository
    /\ now = 0
    /\ rret = [op |-> "none"]
    /\ NoCache
    /\ pc = [p \in {Main, Writer} |-> IF p = Main THEN "Load" ELSE "idle"]
    /\ \E e \in EnvTTL :
        req = [p \in {Main, Writer} |->
                 IF p = Main THEN [op |-> "Load", via |-> "main", REDIS_TTL |-> e]
                 ELSE [op |-> "none"]]
    /\ loc = [p \in {Main, Writer} |-> NoLoc]
    /\ ret = [p \in {Main, Writer} |-> [err |-> Nil, val |-> None]]
    /\ cur = [p \in {Main, Writer} |-> NoNotes]
    /\ hist = [p \in {Main, Writer} |-> NoNotes]

NextTTL ==
    \/ Load
    \/ pc[Main] = "serving" /\ Call(Writer, TTLRequests)
    \/ RegisterCheck(Writer)
    \/ RegisterCreate(Writer)
    \/ GetProfile(Writer)
    \/ UpdateProfileGet(Writer)
    \/ UpdateProfileUpdate(Writer)
    \/ DeleteUser(Writer)
    \/ CachedGet(Writer)
    \/ CachedRegisterSet(Writer)
    \/ CachedLookupSet(Writer)
    \/ CachedUpdateInvalidate(Writer)
    \/ CachedUpdateSet(Writer)
    \/ CachedDeleteInvalidate(Writer)
    \/ \E key \in DOMAIN cache : Expire(key)
    \/ Tick

SpecTTL == InitTTL /\ [][NextTTL]_vars

(* C33: staleness of the cache is bounded: every cache entry is written    *)
(* with a time-to-live (the default when the given one is zero), so that   *)
(* it can expire.                                                          *)
C33_EntriesHaveTTL ==
    \A key \in DOMAIN cache : cache[key].ttl > 0

----------------------------------------------------------------------------
\* GetUsers through the decorator (C34), under SpecSeq

\* the results the business service can give for the caller's GetUsers in the
\* current state of the repository
ServiceLists ==
    LET l0 == IF req[1].limit <= 0 THEN 10 ELSE req[1].limit
        limit == IF l0 > 100 THEN 100 ELSE l0
        offset == IF req[1].offset < 0 THEN 0 ELSE req[1].offset
    IN  {Result(Nil, [users |-> [i \in 1..Len(page) |-> ToResponse(page[i])],
                      total |-> Count]) : page \in List(limit, offset)}

\* a turn of a warming task
WarmStep == warm' # warm /\ pc' = pc

----------------------------------------------------------------------------
\* Identifiers assigned by the in-memory repository (C35), under SpecRepo

(* C35: the identifiers the in-memory repository assigns on create are     *)
(* strictly increasing in creation order and never reused: the counter     *)
(* moves only in a successful create that assigns its value, by one; a     *)
(* failed create and a delete leave it alone; and the identifier assigned  *)
(* is not the one of a stored record, so that the create overwrites        *)
(* nothing.                                                                *)
C35_AssignedIDsFresh ==
    [][/\ nextID' >= nextID
       /\ (rret'.op # "Create" \/ rret'.err # Nil) => nextID' = nextID
       /\ nextID' # nextID =>
             /\ nextID' = nextID + 1
             /\ Itoa(nextID) \notin DOMAIN users
             /\ Itoa(nextID) \in DOMAIN users'
             /\ \A id \in DOMAIN users : users'[id] = users[id]
      ]_vars

----------------------------------------------------------------------------
(* The lock of the in-memory repository (C36).  Each method takes r.mu     *)
(* (Lock for Create, Update and Delete, RLock for the reads) and releases  *)
(* it by a deferred call, which runs on every return.  The position of a   *)
(* caller says what it holds:                                              *)
(*   at its operation's name: before mu.Lock() or mu.RLock()               *)
(*   "LockWait":     writer, has announced itself, waits for the readers   *)
(*   "RLockBlocked": reader that arrived while a writer was announced      *)
(*   "writing", "reading": inside the method's body                        *)
(*   "Unlock", "RUnlock":  the body has returned, the deferred call is due *)
(* sync.RWMutex: a writer that has announced itself blocks new readers     *)
(* and waits for the active ones; its Unlock wakes the readers that were   *)
(* blocked before the next writer can take the lock.                       *)

NLock == 3
LockCallers == {Itoa(n) : n \in 1..NLock}

WriteOps == {"Create", "Update", "Delete"}
ReadOps == {"GetByID"}

WriteSection == {"writing", "Unlock"}
ReadSection == {"reading", "RUnlock"}
Announced == {"LockWait"} \cup WriteSection

LockRequests ==
    {[op |-> "Create", via |-> "repo",
      user |-> User("", Name0, e, Hash0, "user", 0, 0)] :
        e \in {<<"a", "@", ".">>}}
    \cup {[op |-> "Update", via |-> "repo", id |-> "1",
           user |-> User("1", Name2, <<"a", "@", ".">>, Hash0, "user", 0, 0)]}
    \cup {[op |-> "Delete", via |-> "repo", id |-> "1"]}
    \cup {[op |-> "GetByID", via |-> "repo", id |-> "1"]}

\* the pc of every caller but p, which moves to label
Moved(p, label) == [pc EXCEPT ![p] = label]

\* a caller starts a method; a Create is only started while identifiers
\* are left for it and for the creates under way
LockCall(p) ==
    \E r \in LockRequests :
        /\ pc[p] = "idle"
        /\ r.op = "Create" =>
              nextID + Cardinality({q \in LockCallers : req[q].op = "Create"}) <= MaxID
        /\ req' = [req EXCEPT ![p] = r]
        /\ pc' = Moved(p, r.op)
        /\ UNCHANGED <<repoVars, now, rret, loc, ret, cacheVars, obsVars>>

\* the method has returned: its caller is outside the repository again
Returned(p) ==
    /\ req' = [req EXCEPT ![p] = [op |-> "none"]]
    /\ loc' = [loc EXCEPT ![p] = NoLoc]
    /\ UNCHANGED <<repoVars, now, rret, ret, cacheVars, obsVars>>

LockFrame == UNCHANGED <<repoVars, now, rret, req, ret, cacheVars, obsVars>>

\* r.mu.Lock(): the writer gets the writers' mutex and announces itself
LockAcquire(p) ==
    /\ pc[p] \in WriteOps
    /\ \A q \in LockCallers : pc[q] \notin Announced
    /\ pc' = Moved(p, "LockWait")
    /\ UNCHANGED loc /\ LockFrame

\* r.mu.Lock() returns when the active readers are gone
LockDrained(p) ==
    /\ pc[p] = "LockWait"
    /\ \A q \in LockCallers : pc[q] \notin ReadSection
    /\ pc' = Moved(p, "writing")
    /\ UNCHANGED loc /\ LockFrame

\* an RLock that does not look for writers
RLockAnyway(p) ==
    /\ pc[p] \in ReadOps
    /\ pc' = Moved(p, "reading")
    /\ UNCHANGED loc /\ LockFrame

\* r.mu.RLock(): granted at once unless a writer has announced itself
RLockAcquire(p) ==
    /\ pc[p] \in ReadOps
    /\ pc' = Moved(p, IF \E q \in LockCallers : pc[q] \in Announced
                      THEN "RLockBlocked" ELSE "reading")
    /\ UNCHANGED loc /\ LockFrame

\* the body of Create, Update or Delete, up to its return statement
WriteBody(p) ==
    /\ pc[p] = "writing"
    /\ LET r == IF req[p].op = "Create"
                THEN Create(req[p].user, now, now)
                ELSE IF req[p].op = "Update"
                THEN Update(req[p].id, req[p].user, now) @@ [nextID |-> nextID]
                ELSE Delete(req[p].id) @@ [nextID |-> nextID]
       IN  /\ users' = r.users
           /\ emails' = r.emails
           /\ nextID' = r.nextID
           /\ loc' = [loc EXCEPT ![p] = Failure(r.err)]
    /\ pc' = Moved(p, "Unlock")
    /\ UNCHANGED <<now, rret, req, ret, cacheVars, obsVars>>

\* the body of GetByID, up to its return statement
ReadBody(p) ==
    /\ pc[p] = "reading"
    /\ loc' = [loc EXCEPT ![p] =
                 LET g == GetByID(req[p].id)
                 IN  IF g.err # Nil THEN Failure(g.err) ELSE Result(Nil, g.user)]
    /\ pc' = Moved(p, "RUnlock")
    /\ LockFrame

\* a deferred Unlock that is skipped when the method returns an error
UnlockOnSuccess(p) ==
    /\ pc[p] = "Unlock"
    /\ loc[p].err = Nil
    /\ pc' = [q \in LockCallers |->
                IF q = p THEN "idle"
                ELSE IF pc[q] = "RLockBlocked" THEN "reading" ELSE pc[q]]
    /\ Returned(p)

\* defer r.mu.Unlock(): the blocked readers are let in and the method returns
Unlock(p) ==
    /\ pc[p] = "Unlock"
    /\ pc' = [q \in LockCallers |->
                IF q = p THEN "idle"
                ELSE IF pc[q] = "RLockBlocked" THEN "reading" ELSE pc[q]]
    /\ Returned(p)

\* defer r.mu.RUnlock()
RUnlock(p) ==
    /\ pc[p] = "RUnlock"
    /\ pc' = Moved(p, "idle")
    /\ Returned(p)

InitLock ==
    /\ NewMemoryUserRepository
    /\ now = 0
    /\ rret = [op |-> "none"]
    /\ NoCache
    /\ InitCallers(LockCallers)

\* the steps of caller p inside a method
LockSteps(p) ==
    \/ RLockAcquire(p)
    \/ LockDrained(p)
    \/ WriteBody(p)
    \/ ReadBody(p)
    \/ Unlock(p)
    \/ RUnlock(p)

NextLock ==
    \E p \in LockCallers :
        \/ LockCall(p)
        \/ LockAcquire(p)
        \/ LockSteps(p)

SpecLock == InitLock /\ [][NextLock]_vars

\* Every caller inside a method is scheduled; the writers' mutex hands
\* itself to a waiter that has waited long (starvation mode), so a writer
\* that finds it free again and again gets it.
LiveLock ==
    /\ SpecLock
    /\ \A p \in LockCallers : WF_vars(LockSteps(p)) /\ SF_vars(LockAcquire(p))

\* no critical section of a write overlaps another critical section
WritesExclusive ==
    \A p, q \in LockCallers :
        (p # q /\ pc[p] \in WriteSection) => pc[q] \notin WriteSection \cup ReadSection

(* C36: in the in-memory repository the critical section of a write        *)
(* (create, update, delete) never overlaps the critical section of any     *)
(* other operation, read critical sections may overlap each other, and     *)
(* every operation releases the lock on every return path, so that with    *)
(* any number of concurrent callers every call terminates.                 *)
C36_LockDiscipline ==
    /\ []WritesExclusive
    /\ \A p \in LockCallers : (pc[p] # "idle") ~> (pc[p] = "idle")

\* two reads are inside their critical sections while a writer waits
C36_Witness ==
    \E p, q, w \in LockCallers :
        /\ p # q
        /\ pc[p] \in ReadSection /\ pc[q] \in ReadSection
        /\ pc[w] = "LockWait"

\* a write that failed is about to release the lock, readers are blocked
C36_WitnessError ==
    \E p, q \in LockCallers :
        /\ pc[p] = "Unlock" /\ loc[p].err # Nil
        /\ pc[q] = "RLockBlocked"

----------------------------------------------------------------------------
(* The list request from the query string down to the slice expression     *)
(* of the repository (C37).                                                *)

DigitValue ==
    [c \in {"0", "1", "2", "3", "4", "5", "6", "7", "8", "9"} |->
        CASE c = "0" -> 0 [] c = "1" -> 1 [] c = "2" -> 2 [] c = "3" -> 3
          [] c = "4" -> 4 [] c = "5" -> 5 [] c = "6" -> 6 [] c = "7" -> 7
          [] c = "8" -> 8 [] c = "9" -> 9]

RECURSIVE ParseDigits(_, _)
ParseDigits(s, acc) ==
    IF s = <<>> THEN acc ELSE ParseDigits(Tail(s), 10 * acc + DigitValue[Head(s)])

\* strconv.Atoi: an optional sign and then digits only, at least one
\* (the strings of the model are too short to leave the range of int)
Atoi(s) ==
    LET signed == s # <<>> /\ Head(s) \in {"+", "-"}
        digits == IF signed THEN Tail(s) ELSE s
    IN  IF digits = <<>> \/ \E i \in 1..Len(digits) : digits[i] \notin DOMAIN DigitValue
        THEN [err |-> "ErrSyntax", val |-> 0]
        ELSE [err |-> Nil,
              val |-> IF signed /\ Head(s) = "-"
                      THEN 0 - ParseDigits(digits, 0) ELSE ParseDigits(digits, 0)]

\* UserHandler.GetUsers: the limit of the query string, 10 by default
HandlerLimit(limitStr) ==
    IF limitStr # <<>> /\ Atoi(limitStr).err = Nil /\ Atoi(limitStr).val > 0
    THEN Atoi(limitStr).val ELSE 10

\* UserHandler.GetUsers: the offset of the query string, 0 by default
HandlerOffset(offsetStr) ==
    IF offsetStr # <<>> /\ Atoi(offsetStr).err = Nil /\ Atoi(offsetStr).val >= 0
    THEN Atoi(offsetStr).val ELSE 0

\* List: the bounds of allUsers[start:end] over n records, or the early
\* return of an empty page
ListSlice(n, limit, offset) ==
    IF offset > n THEN [early |-> TRUE, start |-> offset, end |-> offset]
    ELSE [early |-> FALSE, start |-> offset,
          end |-> IF offset + limit > n THEN n ELSE offset + limit]

\* the values of the limit and offset parameters of the query string
QueryValues ==
    {<<>>, <<"x">>, <<"1", "x">>, <<"-">>, <<"0">>, <<"-", "1">>, <<"1">>,
     <<"+", "2">>, <<"2">>, <<"1", "0", "0">>, <<"1", "0", "1">>, <<"9", "9", "9">>}

Browser == "browser"

PageRequests ==
    {[op |-> "HandleGetUsers", via |-> "svc", limitStr |-> l, offsetStr |-> o] :
        l \in QueryValues, o \in QueryValues}

\* an account is created
PageCreate ==
    /\ nextID <= MaxID
    /\ LET r == Create(User("", Name0, <<Itoa(nextID), "@", ".">>, Hash0, "user", 0, 0),
                       now, now)
       IN  /\ users' = r.users
           /\ emails' = r.emails
           /\ nextID' = r.nextID
    /\ UNCHANGED <<now, rret, procVars, cacheVars, obsVars>>

\* UserHandler.GetUsers up to its call of the service
HandlerGetUsers(p) ==
    /\ pc[p] = "HandleGetUsers"
    /\ req' = [req EXCEPT ![p] =
                 [op |-> "GetUsers", via |-> "svc",
                  limitStr |-> req[p].limitStr, offsetStr |-> req[p].offsetStr,
                  limit |-> HandlerLimit(req[p].limitStr),
                  offset |-> HandlerOffset(req[p].offsetStr)]]
    /\ pc' = [pc EXCEPT ![p] = "GetUsers"]
    /\ UNCHANGED <<repoVars, now, rret, loc, ret, cacheVars, obsVars>>

\* userService.GetUsers up to and including its List call; the call is
\* written down with its arguments and the bounds of the slice it takes
GetUsersListCall(p) ==
    /\ pc[p] = "GetUsers"
    /\ LET limit == ServiceLimit(req[p].limit)
           offset == ServiceOffset(req[p].offset)
       IN  /\ rret' = [op |-> "List", err |-> Nil, limit |-> limit, offset |-> offset,
                       limitStr |-> req[p].limitStr, offsetStr |-> req[p].offsetStr,
                       len |-> Count, slice |-> ListSlice(Count, limit, offset)]
           /\ \E page \in List(limit, offset) : Goto(p, "GetUsersCount", page)
    /\ UNCHANGED <<repoVars, now, req>>

InitPage ==
    /\ NewMemoryUserRepository
    /\ now = 0
    /\ rret = [op |-> "none"]
    /\ NoCache
    /\ InitCallers({Browser})

NextPage ==
    \/ PageCreate
    \/ Call(Browser, PageRequests)
    \/ HandlerGetUsers(Browser)
    \/ GetUsersListCall(Browser)
    \/ GetUsersCount(Browser)

SpecPage == InitPage /\ [][NextPage]_vars

\* what the limit and the offset of a query string become
LimitBecomes ==
    [s \in QueryValues \ {<<"+", "2">>} |->
        CASE s = <<"1">> -> 1
          [] s = <<"2">> -> 2
          [] s \in {<<"1", "0", "0">>, <<"1", "0", "1">>, <<"9", "9", "9">>} -> 100
          [] OTHER -> 10]
OffsetBecomes ==
    [s \in QueryValues \ {<<"+", "2">>} |->
        CASE s = <<"1">> -> 1
          [] s = <<"2">> -> 2
          [] s = <<"1", "0", "0">> -> 100
          [] s = <<"1", "0", "1">> -> 101
          [] s = <<"9", "9", "9">> -> 999
          [] OTHER -> 0]

(* C37: through the HTTP handler and the business service, the             *)
(* repository's list is only called with 1 <= limit <= 100 and offset >= 0 *)
(* (a missing, non-numeric or non-positive limit becomes 10, a missing,    *)
(* non-numeric or negative offset becomes 0, a limit above 100 becomes     *)
(* 100), and the slice it takes lies inside the record sequence.           *)
C37_ListArgumentsInRange ==
    rret.op = "List" =>
        /\ 1 <= rret.limit /\ rret.limit <= 100
        /\ rret.offset >= 0
        /\ rret.limitStr \in DOMAIN LimitBecomes => rret.limit = LimitBecomes[rret.limitStr]
        /\ rret.offsetStr \in DOMAIN OffsetBecomes =>
              rret.offset = OffsetBecomes[rret.offsetStr]
        /\ \/ rret.slice.early
           \/ /\ 0 <= rret.slice.start
              /\ rret.slice.start <= rret.slice.end
              /\ rret.slice.end <= rret.len

\* a limit above 100 and an offset at the end of two stored records
C37_Witness ==
    /\ rret.op = "List"
    /\ rret.limitStr = <<"1", "0", "1">>
    /\ rret.offsetStr = <<"2">>
    /\ rret.len = 2
    /\ ~rret.slice.early

\* a limit that is no number and a negative offset
C37_WitnessDefaults ==
    /\ rret.op = "List"
    /\ rret.limitStr = <<"1", "x">>
    /\ rret.offsetStr = <<"-", "1">>
    /\ rret.len > 0

----------------------------------------------------------------------------
(* The getUsers query of the GraphQL resolver (C38): it asks the business  *)
(* service for the page and then slices what it got.                       *)

\* the optional arguments of the query
GraphRequests ==
    {[op |-> "QueryGetUsers", via |-> "svc", limitArg |-> l, offsetArg |-> o] :
        l \in {None, Some(0), Some(1), Some(2)},
        o \in {None, Some(0), Some(1), Some(0 - 1)}}

\* queryResolver.GetUsers up to its call of the service (lines 67-77)
ResolverGetUsers(p) ==
    /\ pc[p] = "QueryGetUsers"
    /\ req' = [req EXCEPT ![p] =
                 [op |-> "GetUsers", via |-> "svc",
                  limit |-> IF req[p].limitArg = None THEN 10 ELSE req[p].limitArg[1],
                  offset |-> IF req[p].offsetArg = None THEN 0 ELSE req[p].offsetArg[1]]]
    /\ pc' = [pc EXCEPT ![p] = "GetUsers"]
    /\ UNCHANGED <<repoVars, now, rret, loc, ret, cacheVars, obsVars>>

\* users[start:end] of the resolver: the slice expression panics when
\* start is negative or beyond end
ResolverPage(users_, limit, offset) ==
    LET start == offset
        end == IF start + limit > Len(users_) THEN Len(users_) ELSE start + limit
    IN  IF start >= Len(users_) THEN [err |-> Nil, page |-> <<>>]
        ELSE IF start < 0 \/ start > end THEN [err |-> Panic, page |-> <<>>]
        ELSE [err |-> Nil, page |-> SubSeq(users_, start + 1, end)]

\* queryResolver.GetUsers after the service has returned (lines 78-97)
ResolverPaginate(p) ==
    /\ pc[p] = "done"
    /\ rret' = IF ret[p].err # Nil
               THEN [op |-> "getUsers", err |-> ret[p].err, page |-> <<>>]
               ELSE [op |-> "getUsers"]
                    @@ ResolverPage(ret[p].val.users, req[p].limit, req[p].offset)
    /\ pc' = [pc EXCEPT ![p] = "idle"]
    /\ UNCHANGED <<repoVars, now, req, loc, ret, cacheVars, obsVars>>

InitGraph == InitPage

NextGraph ==
    \/ PageCreate
    \/ pc[Browser] = "idle" /\ Call(Browser, GraphRequests)
    \/ ResolverGetUsers(Browser)
    \/ GetUsersList(Browser)
    \/ GetUsersCount(Browser)
    \/ ResolverPaginate(Browser)

SpecGraph == InitGraph /\ [][NextGraph]_vars

(* C38: the getUsers(limit, offset) query returns the same page as the     *)
(* business service's list for that limit and offset, the records at the   *)
(* positions offset .. offset + limit - 1 of the creation-time-descending  *)
(* order.                                                                  *)
C38_QueryPageIsServicePage ==
    (rret.op = "getUsers" /\ pc[Browser] = "idle") =>
        /\ rret.err = Nil
        /\ rret.page = ret[Browser].val.users

----------------------------------------------------------------------------
(* Token refresh beside updates and deletions of the account (C39).  The   *)
(* client looks its profile up, which fills the cache, and refreshes its   *)
(* token; the operator changes the email or the role of the account, or    *)
(* deletes it.  Cache calls can fail, which leaves old entries behind.     *)

RefreshClientRequests ==
    {[op |-> o, via |-> "cached", id |-> i] :
        o \in {"GetProfile", "RefreshToken"}, i \in {WindowID, "2"}}

RefreshOperatorRequests ==
    {[op |-> "UpdateProfile", via |-> "cached", id |-> WindowID, Name |-> None,
      Email |-> e, Role |-> r] :
        e \in {None, Some(<<"b", "@", ".">>)}, r \in {None, Some("admin")}}
    \cup {[op |-> "DeleteUser", via |-> "cached", id |-> WindowID]}

InitRefresh ==
    /\ users = MapSet(EmptyMap, WindowID, WindowUser)
    /\ emails = MapSet(EmptyMap, WindowUser.Email, WindowID)
    /\ nextID = 2
    /\ now = 0
    /\ rret = [op |-> "none"]
    /\ NoCache
    /\ InitCallers({Client, Operator})

NextRefresh ==
    \/ Call(Client, RefreshClientRequests)
    \/ Call(Operator, RefreshOperatorRequests)
    \/ CachedGet(Client)
    \/ GetProfile(Client)
    \/ CachedLookupSet(Client)
    \/ RefreshToken(Client)
    \/ UpdateProfileGet(Operator)
    \/ UpdateProfileEmail(Operator)
    \/ UpdateProfileUpdate(Operator)
    \/ CachedUpdateInvalidate(Operator)
    \/ CachedUpdateSet(Operator)
    \/ DeleteUser(Operator)
    \/ CachedDeleteInvalidate(Operator)

SpecRefresh == InitRefresh /\ [][NextRefresh]_vars

\* the step in which the client's RefreshToken runs and returns
RefreshStep == pc[Client] = "RefreshToken" /\ pc'[Client] = "done"

RefreshCached == CacheGetUser(WindowID, TRUE)

C39_WitnessDeleted ==
    /\ pc[Client] = "done" /\ req[Client].op = "RefreshToken"
    /\ req[Client].id = WindowID
    /\ ret[Client] = Failure(ErrUserNotFound)
    /\ WindowID \notin DOMAIN users
    /\ RefreshCached.err = Nil

----------------------------------------------------------------------------
(* The route metadata of Router.GetAllRouteInfo against what the           *)
(* middleware does with the registered routes (C40).                       *)

RouteInfo(method, path, protected, adminOnly) ==
    [Method |-> method, Path |-> path, Protected |-> protected, AdminOnly |-> adminOnly]

getHealthRoutes == {RouteInfo("GET", "/health", FALSE, FALSE)}

getAuthRoutes ==
    {RouteInfo("POST", "/auth/register", FALSE, FALSE),
     RouteInfo("POST", "/auth/login", FALSE, FALSE),
     RouteInfo("POST", "/auth/refresh", FALSE, FALSE)}

getUserRoutes ==
    {RouteInfo("GET", "/api/v1/profile", TRUE, FALSE),
     RouteInfo("PUT", "/api/v1/profile", TRUE, FALSE)}

getAdminRoutes ==
    {RouteInfo("GET", "/api/v1/admin/users", TRUE, TRUE),
     RouteInfo("GET", "/api/v1/admin/users/{id}", TRUE, TRUE),
     RouteInfo("DELETE", "/api/v1/admin/users/{id}", TRUE, TRUE)}

GetAllRouteInfo == getHealthRoutes \cup getAuthRoutes \cup getUserRoutes \cup getAdminRoutes

\* the route template a request path matches
PathTemplate(path) ==
    IF path = "/api/v1/admin/users/1" THEN "/api/v1/admin/users/{id}" ELSE path

\* the metadata of a registered route
InfoOf(route) ==
    CHOOSE i \in GetAllRouteInfo :
        i.Method = route.method /\ i.Path = PathTemplate(route.path)

\* the request of caller p had no token that Authenticate accepted
NoValidToken(p) == cur[p].auth = None \/ cur[p].auth[1].err # Nil

\* the request of caller p got to the handler of its route
ReachedHandler(p) == \E i \in 1..Len(cur[p].chain) : cur[p].chain[i] = "Handler"

(* C40: the route metadata agrees with the middleware: every route that    *)
(* GetAllRouteInfo marks as not protected is on the middleware's           *)
(* allow-list and reaches its handler without a token, and every route     *)
(* marked protected is rejected as unauthorized without a valid token.     *)
C40_MetadataAgreesWithMiddleware ==
    \A p \in DOMAIN pc :
        (pc[p] = "done" /\ req[p].via = "http" /\ req[p].route \in Routes) =>
            LET info == InfoOf(req[p].route)
            IN  /\ ~info.Protected =>
                      /\ shouldSkipPath(req[p].route.path)
                      /\ req[p].Authorization = <<>> => ReachedHandler(p)
                /\ (info.Protected /\ NoValidToken(p)) => ret[p] = Failure(Unauthorized)

====
